---- MODULE Spec2Model ----
(***************************************************************************)
(* Model of the deal bot of src/bot/main.py: the affiliate-link pipeline   *)
(* (URL clean-up, redirect resolution, identifier extraction, affiliate    *)
(* link building, caption assembly) and DealBot.run / process_channel      *)
(* with the in-memory ledger and the destination feed.                     *)
(*                                                                         *)
(* Text is modelled at character level: a Python str is the sequence of    *)
(* its characters, <<"h","t","t","p">> for "http".  A printable ASCII      *)
(* character is written as itself and any other character by its code     *)
(* point, "U+05D3" (see Chr).                                              *)
(***************************************************************************)
EXTENDS Naturals, Integers, Sequences, FiniteSets, TLC

----------------------------------------------------------------------------
(* Characters and basic string operations (Python str methods)             *)

\* the printable ASCII characters: chr(31 + k) = Ascii[k]; the grave accent
\* (chr(96)) is written "<grave>"
Ascii == <<" ", "!", "\"", "#", "$", "%", "&", "'", "(", ")", "*", "+", ",", "-", ".", "/", "0", "1", "2", "3", "4", "5", "6", "7", "8", "9", ":", ";", "<", "=", ">", "?", "@", "A", "B", "C", "D", "E", "F", "G", "H", "I", "J", "K", "L", "M", "N", "O", "P", "Q", "R", "S", "T", "U", "V", "W", "X", "Y", "Z", "[", "\\", "]", "^", "_", "<grave>", "a", "b", "c", "d", "e", "f", "g", "h", "i", "j", "k", "l", "m", "n", "o", "p", "q", "r", "s", "t", "u", "v", "w", "x", "y", "z", "{", "|", "}", "~">>

\* the index of each printable ASCII character in Ascii
AsciiCode ==
    [c \in {Ascii[k] : k \in 1..Len(Ascii)} |-> CHOOSE k \in 1..Len(Ascii) : Ascii[k] = c]


HexDigits == <<"0", "1", "2", "3", "4", "5", "6", "7", "8", "9", "a", "b", "c", "d", "e", "f">>

HexUpper == <<"0", "1", "2", "3", "4", "5", "6", "7", "8", "9", "A", "B", "C", "D", "E", "F">>

HexVal(c) == (CHOOSE k \in 1..16 : HexDigits[k] = c \/ HexUpper[k] = c) - 1

\* chr(cp), the character of a code point: a printable ASCII character is
\* written as itself, chr(10), chr(9) and chr(13) as "\n", "\t" and "\r",
\* every other character as "U+" and its code point in hexadecimal
\* ("U+000B", "U+05D3", "U+1F447")
Chr(cp) ==
    IF cp >= 32 /\ cp <= 126 THEN Ascii[cp - 31]
    ELSE IF cp = 10 THEN "\n"
    ELSE IF cp = 9 THEN "\t"
    ELSE IF cp = 13 THEN "\r"
    ELSE LET RECURSIVE HexString(_, _)
             \* n in capital hexadecimal digits, at least width of them
             HexString(n, width) ==
                 IF n < 16 /\ width <= 1 THEN HexUpper[n + 1]
                 ELSE HexString(n \div 16, width - 1) \o HexUpper[(n % 16) + 1]
         IN  "U+" \o HexString(cp, 4)

\* ord(c), the code point of a character
Ord(c) ==
    IF c \in DOMAIN AsciiCode THEN AsciiCode[c] + 31
    ELSE IF c = "\n" THEN 10
    ELSE IF c = "\t" THEN 9
    ELSE IF c = "\r" THEN 13
    ELSE LET RECURSIVE HexNumber(_)
             \* the number written by the hexadecimal digits 3..n of c
             HexNumber(n) ==
                 IF n = 2 THEN 0 ELSE 16 * HexNumber(n - 1) + HexVal(SubSeq(c, n, n))
         IN  HexNumber(Len(c))

\* the characters str.strip(), str.rstrip() and str.isspace() take for
\* whitespace, which are those of \s in a str pattern: the code points 9-13,
\* 28-32, 133, 160, 5760, 8192-8202, 8232, 8233, 8239, 8287 and 12288
Whitespace ==
    {"\t", "\n", "U+000B", "U+000C", "\r", "U+001C", "U+001D", "U+001E", "U+001F", " ",
     "U+0085", "U+00A0", "U+1680", "U+2000", "U+2001", "U+2002", "U+2003", "U+2004", "U+2005",
     "U+2006", "U+2007", "U+2008", "U+2009", "U+200A", "U+2028", "U+2029", "U+202F", "U+205F",
     "U+3000"}

Digits == {"0", "1", "2", "3", "4", "5", "6", "7", "8", "9"}

\* the characters of \d in a str pattern: the decimal digits of every
\* script, ten from each zero
DecimalDigits ==
    Digits \cup {Chr(zero + k) : zero \in 
                 {1632, 1776, 1984, 2406, 2534, 2662, 2790, 2918, 3046, 3174, 3302, 3430,
                  3558, 3664, 3792, 3872, 4160, 4240, 6112, 6160, 6470, 6608, 6784, 6800,
                  6992, 7088, 7232, 7248, 42528, 43216, 43264, 43472, 43504, 43600, 44016,
                  65296, 66720, 68912, 69734, 69872, 69942, 70096, 70384, 70736, 70864,
                  71248, 71360, 71472, 71904, 72016, 72784, 73040, 73120, 92768, 92864,
                  93008, 120782, 120792, 120802, 120812, 120822, 123200, 123632, 125264,
                  130032}
           ,
                               k \in 0..9}

\* the letters A-Z and a-z with the digits 0-9
Alnum == Digits \cup {Ascii[k] : k \in (34..59) \cup (66..91)}

\* the lower-case form of a capital ASCII letter
AsciiLower(c) ==
    IF c \in {"A", "B", "C", "D", "E", "F", "G", "H", "I", "J", "K", "L", "M", "N", "O", "P",
              "Q", "R", "S", "T", "U", "V", "W", "X", "Y", "Z"}
    THEN Ascii[AsciiCode[c] + 32]
    ELSE c

\* the character a pattern compiled with re.IGNORECASE compares: beside the
\* capital letters, U+0130 and U+0131 match "i", U+017F matches "s" and
\* U+212A matches "k"
Fold(c) ==
    IF c = "U+0130" \/ c = "U+0131" THEN "i"
    ELSE IF c = "U+017F" THEN "s"
    ELSE IF c = "U+212A" THEN "k"
    ELSE AsciiLower(c)

\* str.lower() outside ASCII, four numbers for each group of code points:
\* first, last, step, delta stand for the code points first, first + step,
\* ..., last, each of which has the lower-case form at delta from it
LowerRanges ==
    <<192, 214, 1, 32, 216, 222, 1, 32, 256, 302, 2, 1, 306, 310, 2, 1, 313, 327, 2, 1, 330,
      374, 2, 1, 376, 376, 1, -121, 377, 381, 2, 1, 385, 385, 1, 210, 386, 388, 2, 1, 390, 390,
      1, 206, 391, 391, 1, 1, 393, 394, 1, 205, 395, 395, 1, 1, 398, 398, 1, 79, 399, 399, 1,
      202, 400, 400, 1, 203, 401, 401, 1, 1, 403, 403, 1, 205, 404, 404, 1, 207, 406, 406, 1,
      211, 407, 407, 1, 209, 408, 408, 1, 1, 412, 412, 1, 211, 413, 413, 1, 213, 415, 415, 1,
      214, 416, 420, 2, 1, 422, 422, 1, 218, 423, 423, 1, 1, 425, 425, 1, 218, 428, 428, 1, 1,
      430, 430, 1, 218, 431, 431, 1, 1, 433, 434, 1, 217, 435, 437, 2, 1, 439, 439, 1, 219,
      440, 440, 1, 1, 444, 444, 1, 1, 452, 452, 1, 2, 453, 453, 1, 1, 455, 455, 1, 2, 456, 456,
      1, 1, 458, 458, 1, 2, 459, 475, 2, 1, 478, 494, 2, 1, 497, 497, 1, 2, 498, 500, 2, 1,
      502, 502, 1, -97, 503, 503, 1, -56, 504, 542, 2, 1, 544, 544, 1, -130, 546, 562, 2, 1,
      570, 570, 1, 10795, 571, 571, 1, 1, 573, 573, 1, -163, 574, 574, 1, 10792, 577, 577, 1,
      1, 579, 579, 1, -195, 580, 580, 1, 69, 581, 581, 1, 71, 582, 590, 2, 1, 880, 882, 2, 1,
      886, 886, 1, 1, 895, 895, 1, 116, 902, 902, 1, 38, 904, 906, 1, 37, 908, 908, 1, 64, 910,
      911, 1, 63, 913, 929, 1, 32, 931, 939, 1, 32, 975, 975, 1, 8, 984, 1006, 2, 1, 1012,
      1012, 1, -60, 1015, 1015, 1, 1, 1017, 1017, 1, -7, 1018, 1018, 1, 1, 1021, 1023, 1, -130,
      1024, 1039, 1, 80, 1040, 1071, 1, 32, 1120, 1152, 2, 1, 1162, 1214, 2, 1, 1216, 1216, 1,
      15, 1217, 1229, 2, 1, 1232, 1326, 2, 1, 1329, 1366, 1, 48, 4256, 4293, 1, 7264, 4295,
      4295, 1, 7264, 4301, 4301, 1, 7264, 5024, 5103, 1, 38864, 5104, 5109, 1, 8, 7312, 7354,
      1, -3008, 7357, 7359, 1, -3008, 7680, 7828, 2, 1, 7838, 7838, 1, -7615, 7840, 7934, 2, 1,
      7944, 7951, 1, -8, 7960, 7965, 1, -8, 7976, 7983, 1, -8, 7992, 7999, 1, -8, 8008, 8013,
      1, -8, 8025, 8031, 2, -8, 8040, 8047, 1, -8, 8072, 8079, 1, -8, 8088, 8095, 1, -8, 8104,
      8111, 1, -8, 8120, 8121, 1, -8, 8122, 8123, 1, -74, 8124, 8124, 1, -9, 8136, 8139, 1,
      -86, 8140, 8140, 1, -9, 8152, 8153, 1, -8, 8154, 8155, 1, -100, 8168, 8169, 1, -8, 8170,
      8171, 1, -112, 8172, 8172, 1, -7, 8184, 8185, 1, -128, 8186, 8187, 1, -126, 8188, 8188,
      1, -9, 8486, 8486, 1, -7517, 8490, 8490, 1, -8383, 8491, 8491, 1, -8262, 8498, 8498, 1,
      28, 8544, 8559, 1, 16, 8579, 8579, 1, 1, 9398, 9423, 1, 26, 11264, 11311, 1, 48, 11360,
      11360, 1, 1, 11362, 11362, 1, -10743, 11363, 11363, 1, -3814, 11364, 11364, 1, -10727,
      11367, 11371, 2, 1, 11373, 11373, 1, -10780, 11374, 11374, 1, -10749, 11375, 11375, 1,
      -10783, 11376, 11376, 1, -10782, 11378, 11378, 1, 1, 11381, 11381, 1, 1, 11390, 11391, 1,
      -10815, 11392, 11490, 2, 1, 11499, 11501, 2, 1, 11506, 11506, 1, 1, 42560, 42604, 2, 1,
      42624, 42650, 2, 1, 42786, 42798, 2, 1, 42802, 42862, 2, 1, 42873, 42875, 2, 1, 42877,
      42877, 1, -35332, 42878, 42886, 2, 1, 42891, 42891, 1, 1, 42893, 42893, 1, -42280, 42896,
      42898, 2, 1, 42902, 42920, 2, 1, 42922, 42922, 1, -42308, 42923, 42923, 1, -42319, 42924,
      42924, 1, -42315, 42925, 42925, 1, -42305, 42926, 42926, 1, -42308, 42928, 42928, 1,
      -42258, 42929, 42929, 1, -42282, 42930, 42930, 1, -42261, 42931, 42931, 1, 928, 42932,
      42946, 2, 1, 42948, 42948, 1, -48, 42949, 42949, 1, -42307, 42950, 42950, 1, -35384,
      42951, 42953, 2, 1, 42960, 42960, 1, 1, 42966, 42968, 2, 1, 42997, 42997, 1, 1, 65313,
      65338, 1, 32, 66560, 66599, 1, 40, 66736, 66771, 1, 40, 66928, 66938, 1, 39, 66940,
      66954, 1, 39, 66956, 66962, 1, 39, 66964, 66965, 1, 39, 68736, 68786, 1, 64, 71840,
      71871, 1, 32, 93760, 93791, 1, 32, 125184, 125217, 1, 34>>

\* the cased characters that are not case-ignorable, two numbers for each
\* range of code points: first, last
CasedRanges ==
    <<65, 90, 97, 122, 170, 170, 181, 181, 186, 186, 192, 214, 216, 246, 248, 442, 444, 447,
      452, 659, 661, 687, 880, 883, 886, 887, 891, 893, 895, 895, 902, 902, 904, 906, 908, 908,
      910, 929, 931, 1013, 1015, 1153, 1162, 1327, 1329, 1366, 1376, 1416, 4256, 4293, 4295,
      4295, 4301, 4301, 4304, 4346, 4349, 4351, 5024, 5109, 5112, 5117, 7296, 7304, 7312, 7354,
      7357, 7359, 7424, 7467, 7531, 7543, 7545, 7578, 7680, 7957, 7960, 7965, 7968, 8005, 8008,
      8013, 8016, 8023, 8025, 8025, 8027, 8027, 8029, 8029, 8031, 8061, 8064, 8116, 8118, 8124,
      8126, 8126, 8130, 8132, 8134, 8140, 8144, 8147, 8150, 8155, 8160, 8172, 8178, 8180, 8182,
      8188, 8450, 8450, 8455, 8455, 8458, 8467, 8469, 8469, 8473, 8477, 8484, 8484, 8486, 8486,
      8488, 8488, 8490, 8493, 8495, 8500, 8505, 8505, 8508, 8511, 8517, 8521, 8526, 8526, 8544,
      8575, 8579, 8580, 9398, 9449, 11264, 11387, 11390, 11492, 11499, 11502, 11506, 11507,
      11520, 11557, 11559, 11559, 11565, 11565, 42560, 42605, 42624, 42651, 42786, 42863,
      42865, 42887, 42891, 42894, 42896, 42954, 42960, 42961, 42963, 42963, 42965, 42969,
      42997, 42998, 43002, 43002, 43824, 43866, 43872, 43880, 43888, 43967, 64256, 64262,
      64275, 64279, 65313, 65338, 65345, 65370, 66560, 66639, 66736, 66771, 66776, 66811,
      66928, 66938, 66940, 66954, 66956, 66962, 66964, 66965, 66967, 66977, 66979, 66993,
      66995, 67001, 67003, 67004, 68736, 68786, 68800, 68850, 71840, 71903, 93760, 93823,
      119808, 119892, 119894, 119964, 119966, 119967, 119970, 119970, 119973, 119974, 119977,
      119980, 119982, 119993, 119995, 119995, 119997, 120003, 120005, 120069, 120071, 120074,
      120077, 120084, 120086, 120092, 120094, 120121, 120123, 120126, 120128, 120132, 120134,
      120134, 120138, 120144, 120146, 120485, 120488, 120512, 120514, 120538, 120540, 120570,
      120572, 120596, 120598, 120628, 120630, 120654, 120656, 120686, 120688, 120712, 120714,
      120744, 120746, 120770, 120772, 120779, 122624, 122633, 122635, 122654, 125184, 125251,
      127280, 127305, 127312, 127337, 127344, 127369>>

\* the case-ignorable characters, two numbers for each range: first, last
CaseIgnorableRanges ==
    <<39, 39, 46, 46, 58, 58, 94, 94, 96, 96, 168, 168, 173, 173, 175, 175, 180, 180, 183, 184,
      688, 879, 884, 885, 890, 890, 900, 901, 903, 903, 1155, 1161, 1369, 1369, 1375, 1375,
      1425, 1469, 1471, 1471, 1473, 1474, 1476, 1477, 1479, 1479, 1524, 1524, 1536, 1541, 1552,
      1562, 1564, 1564, 1600, 1600, 1611, 1631, 1648, 1648, 1750, 1757, 1759, 1768, 1770, 1773,
      1807, 1807, 1809, 1809, 1840, 1866, 1958, 1968, 2027, 2037, 2042, 2042, 2045, 2045, 2070,
      2093, 2137, 2139, 2184, 2184, 2192, 2193, 2200, 2207, 2249, 2306, 2362, 2362, 2364, 2364,
      2369, 2376, 2381, 2381, 2385, 2391, 2402, 2403, 2417, 2417, 2433, 2433, 2492, 2492, 2497,
      2500, 2509, 2509, 2530, 2531, 2558, 2558, 2561, 2562, 2620, 2620, 2625, 2626, 2631, 2632,
      2635, 2637, 2641, 2641, 2672, 2673, 2677, 2677, 2689, 2690, 2748, 2748, 2753, 2757, 2759,
      2760, 2765, 2765, 2786, 2787, 2810, 2815, 2817, 2817, 2876, 2876, 2879, 2879, 2881, 2884,
      2893, 2893, 2901, 2902, 2914, 2915, 2946, 2946, 3008, 3008, 3021, 3021, 3072, 3072, 3076,
      3076, 3132, 3132, 3134, 3136, 3142, 3144, 3146, 3149, 3157, 3158, 3170, 3171, 3201, 3201,
      3260, 3260, 3263, 3263, 3270, 3270, 3276, 3277, 3298, 3299, 3328, 3329, 3387, 3388, 3393,
      3396, 3405, 3405, 3426, 3427, 3457, 3457, 3530, 3530, 3538, 3540, 3542, 3542, 3633, 3633,
      3636, 3642, 3654, 3662, 3761, 3761, 3764, 3772, 3782, 3782, 3784, 3789, 3864, 3865, 3893,
      3893, 3895, 3895, 3897, 3897, 3953, 3966, 3968, 3972, 3974, 3975, 3981, 3991, 3993, 4028,
      4038, 4038, 4141, 4144, 4146, 4151, 4153, 4154, 4157, 4158, 4184, 4185, 4190, 4192, 4209,
      4212, 4226, 4226, 4229, 4230, 4237, 4237, 4253, 4253, 4348, 4348, 4957, 4959, 5906, 5908,
      5938, 5939, 5970, 5971, 6002, 6003, 6068, 6069, 6071, 6077, 6086, 6086, 6089, 6099, 6103,
      6103, 6109, 6109, 6155, 6159, 6211, 6211, 6277, 6278, 6313, 6313, 6432, 6434, 6439, 6440,
      6450, 6450, 6457, 6459, 6679, 6680, 6683, 6683, 6742, 6742, 6744, 6750, 6752, 6752, 6754,
      6754, 6757, 6764, 6771, 6780, 6783, 6783, 6823, 6823, 6832, 6862, 6912, 6915, 6964, 6964,
      6966, 6970, 6972, 6972, 6978, 6978, 7019, 7027, 7040, 7041, 7074, 7077, 7080, 7081, 7083,
      7085, 7142, 7142, 7144, 7145, 7149, 7149, 7151, 7153, 7212, 7219, 7222, 7223, 7288, 7293,
      7376, 7378, 7380, 7392, 7394, 7400, 7405, 7405, 7412, 7412, 7416, 7417, 7468, 7530, 7544,
      7544, 7579, 7679, 8125, 8125, 8127, 8129, 8141, 8143, 8157, 8159, 8173, 8175, 8189, 8190,
      8203, 8207, 8216, 8217, 8228, 8228, 8231, 8231, 8234, 8238, 8288, 8292, 8294, 8303, 8305,
      8305, 8319, 8319, 8336, 8348, 8400, 8432, 11388, 11389, 11503, 11505, 11631, 11631,
      11647, 11647, 11744, 11775, 11823, 11823, 12293, 12293, 12330, 12333, 12337, 12341,
      12347, 12347, 12441, 12446, 12540, 12542, 40981, 40981, 42232, 42237, 42508, 42508,
      42607, 42610, 42612, 42621, 42623, 42623, 42652, 42655, 42736, 42737, 42752, 42785,
      42864, 42864, 42888, 42890, 42994, 42996, 43000, 43001, 43010, 43010, 43014, 43014,
      43019, 43019, 43045, 43046, 43052, 43052, 43204, 43205, 43232, 43249, 43263, 43263,
      43302, 43309, 43335, 43345, 43392, 43394, 43443, 43443, 43446, 43449, 43452, 43453,
      43471, 43471, 43493, 43494, 43561, 43566, 43569, 43570, 43573, 43574, 43587, 43587,
      43596, 43596, 43632, 43632, 43644, 43644, 43696, 43696, 43698, 43700, 43703, 43704,
      43710, 43711, 43713, 43713, 43741, 43741, 43756, 43757, 43763, 43764, 43766, 43766,
      43867, 43871, 43881, 43883, 44005, 44005, 44008, 44008, 44013, 44013, 64286, 64286,
      64434, 64450, 65024, 65039, 65043, 65043, 65056, 65071, 65106, 65106, 65109, 65109,
      65279, 65279, 65287, 65287, 65294, 65294, 65306, 65306, 65342, 65342, 65344, 65344,
      65392, 65392, 65438, 65439, 65507, 65507, 65529, 65531, 66045, 66045, 66272, 66272,
      66422, 66426, 67456, 67461, 67463, 67504, 67506, 67514, 68097, 68099, 68101, 68102,
      68108, 68111, 68152, 68154, 68159, 68159, 68325, 68326, 68900, 68903, 69291, 69292,
      69446, 69456, 69506, 69509, 69633, 69633, 69688, 69702, 69744, 69744, 69747, 69748,
      69759, 69761, 69811, 69814, 69817, 69818, 69821, 69821, 69826, 69826, 69837, 69837,
      69888, 69890, 69927, 69931, 69933, 69940, 70003, 70003, 70016, 70017, 70070, 70078,
      70089, 70092, 70095, 70095, 70191, 70193, 70196, 70196, 70198, 70199, 70206, 70206,
      70367, 70367, 70371, 70378, 70400, 70401, 70459, 70460, 70464, 70464, 70502, 70508,
      70512, 70516, 70712, 70719, 70722, 70724, 70726, 70726, 70750, 70750, 70835, 70840,
      70842, 70842, 70847, 70848, 70850, 70851, 71090, 71093, 71100, 71101, 71103, 71104,
      71132, 71133, 71219, 71226, 71229, 71229, 71231, 71232, 71339, 71339, 71341, 71341,
      71344, 71349, 71351, 71351, 71453, 71455, 71458, 71461, 71463, 71467, 71727, 71735,
      71737, 71738, 71995, 71996, 71998, 71998, 72003, 72003, 72148, 72151, 72154, 72155,
      72160, 72160, 72193, 72202, 72243, 72248, 72251, 72254, 72263, 72263, 72273, 72278,
      72281, 72283, 72330, 72342, 72344, 72345, 72752, 72758, 72760, 72765, 72767, 72767,
      72850, 72871, 72874, 72880, 72882, 72883, 72885, 72886, 73009, 73014, 73018, 73018,
      73020, 73021, 73023, 73029, 73031, 73031, 73104, 73105, 73109, 73109, 73111, 73111,
      73459, 73460, 78896, 78904, 92912, 92916, 92976, 92982, 92992, 92995, 94031, 94031,
      94095, 94111, 94176, 94177, 94179, 94180, 110576, 110579, 110581, 110587, 110589, 110590,
      113821, 113822, 113824, 113827, 118528, 118573, 118576, 118598, 119143, 119145, 119155,
      119170, 119173, 119179, 119210, 119213, 119362, 119364, 121344, 121398, 121403, 121452,
      121461, 121461, 121476, 121476, 121499, 121503, 121505, 121519, 122880, 122886, 122888,
      122904, 122907, 122913, 122915, 122916, 122918, 122922, 123184, 123197, 123566, 123566,
      123628, 123631, 125136, 125142, 125252, 125259, 127995, 127999, 917505, 917505, 917536,
      917631, 917760, 917999>>

\* str.lower() of the character at s[i]: a capital sigma is the final sigma
\* where a cased character stands before it and none after it, case-ignorable
\* characters skipped; U+0130 gives two characters
LowerAt(s, i) ==
    IF s[i] \in DOMAIN AsciiCode THEN <<AsciiLower(s[i])>>
    ELSE IF s[i] = "\n" \/ s[i] = "\t" \/ s[i] = "\r" THEN <<s[i]>>
    ELSE IF s[i] = "U+0130" THEN <<"i", "U+0307">>
    ELSE IF s[i] = "U+03A3"
    THEN LET \* cp lies in one of the ranges of a table of first, last pairs
             InRanges(cp, table) ==
                 \E k \in 1..(Len(table) \div 2) :
                     table[2 * k - 1] <= cp /\ cp <= table[2 * k]
             \* before, after: the positions on either side of i that hold a
             \* character which is not case-ignorable
             final(before, after) ==
                 /\ before # {}
                 /\ InRanges(Ord(s[CHOOSE j \in before : \A k \in before : k <= j]),
                             CasedRanges)
                 /\ \/ after = {}
                    \/ ~InRanges(Ord(s[CHOOSE j \in after : \A k \in after : j <= k]),
                                 CasedRanges)
         IN  IF final({j \in 1..(i - 1) : ~InRanges(Ord(s[j]), CaseIgnorableRanges)},
                      {j \in (i + 1)..Len(s) : ~InRanges(Ord(s[j]), CaseIgnorableRanges)})
             THEN <<"U+03C2">> ELSE <<"U+03C3">>
    ELSE LET lowered(cp, hit) ==
                 IF hit = {} THEN <<s[i]>>
                 ELSE <<Chr(cp + LowerRanges[4 * (CHOOSE k \in hit : TRUE)])>>
             at(cp) ==
                 lowered(cp, {k \in 1..(Len(LowerRanges) \div 4) :
                                  /\ LowerRanges[4 * k - 3] <= cp
                                  /\ cp <= LowerRanges[4 * k - 2]
                                  /\ (cp - LowerRanges[4 * k - 3]) % LowerRanges[4 * k - 1] = 0})
         IN  at(Ord(s[i]))

\* str.lower()
LowerStr(s) ==
    LET RECURSIVE LowerFrom(_)
        LowerFrom(i) == IF i > Len(s) THEN << >> ELSE LowerAt(s, i) \o LowerFrom(i + 1)
    IN  IF \E i \in 1..Len(s) : s[i] = "U+0130"
        THEN LowerFrom(1)
        ELSE << >> \o [i \in 1..Len(s) |-> LowerAt(s, i)[1]]

\* number of trailing characters of s that are members of set
TrailingIn(s, set) ==
    CHOOSE t \in 0..Len(s) :
        /\ t = Len(s) \/ s[Len(s) - t] \notin set
        /\ \A j \in 1..t : s[Len(s) - j + 1] \in set

\* number of leading characters of s that are members of set
LeadingIn(s, set) ==
    CHOOSE t \in 0..Len(s) :
        /\ t = Len(s) \/ s[t + 1] \notin set
        /\ \A j \in 1..t : s[j] \in set

\* str.rstrip(chars)
RStripSet(s, set) == SubSeq(s, 1, Len(s) - TrailingIn(s, set))

\* str.lstrip(chars)
LStripSet(s, set) == SubSeq(s, LeadingIn(s, set) + 1, Len(s))

\* str.strip(chars) / str.strip(): drop leading and trailing members of set
StripSet(s, set) == LStripSet(RStripSet(s, set), set)

\* s[i:].startswith(p), i counted from 1
StartsWithAt(s, i, p) ==
    /\ i >= 1
    /\ i + Len(p) - 1 <= Len(s)
    /\ SubSeq(s, i, i + Len(p) - 1) = p

\* the same under re.IGNORECASE (p is given in lower case)
StartsWithAtIC(s, i, p) ==
    /\ i >= 1
    /\ i + Len(p) - 1 <= Len(s)
    /\ \A k \in 1..Len(p) : Fold(s[i + k - 1]) = p[k]

\* `sub in s`
Contains(s, sub) ==
    \E i \in 1..(Len(s) - Len(sub) + 1) : SubSeq(s, i, i + Len(sub) - 1) = sub

\* s.find(sub, from) counted from 1; 0 when absent
Find(s, sub, from) ==
    LET found == {i \in from..(Len(s) - Len(sub) + 1) : SubSeq(s, i, i + Len(sub) - 1) = sub}
    IN  IF found = {} THEN 0 ELSE CHOOSE i \in found : \A j \in found : i <= j

\* s.count(sub) from position from on: the non-overlapping occurrences; the
\* empty string occurs before every character and at the end
RECURSIVE CountFrom(_, _, _)
CountFrom(s, sub, from) ==
    IF sub = << >> THEN (IF from > Len(s) + 1 THEN 0 ELSE Len(s) - from + 2)
    ELSE LET i == Find(s, sub, from)
         IN  IF i = 0 THEN 0 ELSE 1 + CountFrom(s, sub, i + Len(sub))

\* s.count(sub)
Count(s, sub) == CountFrom(s, sub, 1)

\* s.replace(old, new, n) from position from on; an empty old is replaced
\* before every character and at the end, n times at most
RECURSIVE ReplaceFrom(_, _, _, _, _)
ReplaceFrom(s, old, new, n, from) ==
    IF old = << >>
    THEN LET \* new before each of the first m places of rest: `blocks` of them
             \* are before a character, the last one may be the end
             spread(rest, m, blocks) ==
                 << >> \o [j \in 1..(Len(rest) + m * Len(new)) |->
                              IF j <= blocks * (Len(new) + 1)
                              THEN IF (j - 1) % (Len(new) + 1) < Len(new)
                                   THEN new[((j - 1) % (Len(new) + 1)) + 1]
                                   ELSE rest[((j - 1) \div (Len(new) + 1)) + 1]
                              ELSE IF m > Len(rest) THEN new[j - blocks * (Len(new) + 1)]
                              ELSE rest[j - m * Len(new)]]
         IN  spread(SubSeq(s, from, Len(s)),
                    IF n < Len(s) - from + 2 THEN n ELSE Len(s) - from + 2,
                    IF n < Len(s) - from + 1 THEN n ELSE Len(s) - from + 1)
    ELSE LET i == Find(s, old, from)
         IN  IF n = 0 \/ i = 0
             THEN SubSeq(s, from, Len(s))
             ELSE SubSeq(s, from, i - 1) \o new
                      \o ReplaceFrom(s, old, new, n - 1, i + Len(old))

\* s.replace(old, new, n): the first n occurrences
Replace(s, old, new, n) == ReplaceFrom(s, old, new, n, 1)

\* least k >= from with s[k] in set; Len(s) + 1 when there is none
FirstIn(s, from, set) ==
    IF \E k \in from..Len(s) : s[k] \in set
    THEN CHOOSE k \in from..Len(s) : s[k] \in set /\ \A j \in from..(k - 1) : s[j] \notin set
    ELSE Len(s) + 1

\* least k >= from with s[k] not in set; Len(s) + 1 when there is none
FirstNotIn(s, from, set) ==
    IF \E k \in from..Len(s) : s[k] \notin set
    THEN CHOOSE k \in from..Len(s) : s[k] \notin set /\ \A j \in from..(k - 1) : s[j] \in set
    ELSE Len(s) + 1

\* end of the run of non-whitespace characters that starts at i (regex \S+);
\* i - 1 when s[i] is whitespace or past the end
NonSpaceRunEnd(s, i) == IF i > Len(s) THEN i - 1 ELSE FirstIn(s, i, Whitespace) - 1

\* end of the run of members of set that starts at i; i - 1 when there is none
RunEnd(s, i, set) == IF i > Len(s) THEN i - 1 ELSE FirstNotIn(s, i, set) - 1

----------------------------------------------------------------------------
(* urllib.parse.unquote / quote                                            *)

\* s[i] starts an escape %XY with two hex digits
EscapeAt(s, i) ==
    /\ s[i] = "%"
    /\ i + 2 <= Len(s)
    /\ \A j \in {i + 1, i + 2} : \E k \in 1..16 : HexDigits[k] = s[j] \/ HexUpper[k] = s[j]

\* unquote_to_bytes over the runs of ASCII characters: every %XY with two hex
\* digits is the byte XY, every other ASCII character its own byte; a
\* character outside ASCII stands between the runs, written here as the
\* negative of its code point
RECURSIVE UnquoteToBytes(_, _)
UnquoteToBytes(s, from) ==
    LET byte(cp) == IF cp < 128 THEN cp ELSE 0 - cp
        \* s[from..k-1], where no escape begins, and the escape at k
        upto(k) ==
            [j \in 1..(k - from) |-> byte(Ord(s[from + j - 1]))]
                \o (IF k > Len(s) THEN << >>
                    ELSE <<16 * HexVal(s[k + 1]) + HexVal(s[k + 2])>>
                             \o UnquoteToBytes(s, k + 3))
        first(escapes) ==
            upto(IF escapes = {} THEN Len(s) + 1
                 ELSE CHOOSE k \in escapes : \A j \in escapes : k <= j)
    IN  first({k \in from..Len(s) : EscapeAt(s, k)})

\* how many bytes from b[i] on are the beginning of one well-formed UTF-8
\* sequence; 0 when b[i] cannot begin one
Utf8Prefix(b, i) ==
    LET at(k) == IF i + k <= Len(b) THEN b[i + k] ELSE 0
        cont(x) == x >= 128 /\ x <= 191
        second(x) == IF b[i] = 224 THEN x >= 160 /\ x <= 191
                     ELSE IF b[i] = 237 THEN x >= 128 /\ x <= 159
                     ELSE IF b[i] = 240 THEN x >= 144 /\ x <= 191
                     ELSE IF b[i] = 244 THEN x >= 128 /\ x <= 143
                     ELSE cont(x)
    IN  IF b[i] < 194 \/ b[i] > 244 THEN 0
        ELSE IF ~second(at(1)) THEN 1
        ELSE IF b[i] < 224 \/ ~cont(at(2)) THEN 2
        ELSE IF b[i] < 240 \/ ~cont(at(3)) THEN 3
        ELSE 4

\* bytes.decode("utf-8", "replace") of each run: a well-formed sequence is its
\* character, every longest ill-formed beginning of one is U+FFFD
RECURSIVE Utf8Decode(_, _)
Utf8Decode(b, from) ==
    LET \* the n bytes at b[i], which begin a sequence of need bytes
        decoded(i, n, need) ==
            IF n < need THEN "U+FFFD"
            ELSE IF n = 2 THEN Chr((b[i] - 192) * 64 + (b[i + 1] - 128))
            ELSE IF n = 3
            THEN Chr((b[i] - 224) * 4096 + (b[i + 1] - 128) * 64 + (b[i + 2] - 128))
            ELSE Chr((b[i] - 240) * 262144 + (b[i + 1] - 128) * 4096
                         + (b[i + 2] - 128) * 64 + (b[i + 3] - 128))
        sequence(i, n) ==
            <<decoded(i, n, IF b[i] < 224 THEN 2 ELSE IF b[i] < 240 THEN 3 ELSE 4)>>
                \o Utf8Decode(b, i + (IF n = 0 THEN 1 ELSE n))
        \* b[from..i-1], all below 128, and the sequence at i
        upto(i) ==
            [j \in 1..(i - from) |->
                Chr(IF b[from + j - 1] < 0 THEN 0 - b[from + j - 1] ELSE b[from + j - 1])]
                \o (IF i > Len(b) THEN << >> ELSE sequence(i, Utf8Prefix(b, i)))
        first(high) ==
            upto(IF high = {} THEN Len(b) + 1
                 ELSE CHOOSE k \in high : \A j \in high : k <= j)
    IN  first({k \in from..Len(b) : b[k] >= 128})

\* urllib.parse.unquote(s): encoding "utf-8", errors "replace"
unquote(s) ==
    IF \E k \in 1..Len(s) : s[k] = "%" THEN Utf8Decode(UnquoteToBytes(s, 1), 1) ELSE s

\* str.encode("utf-8") of one character
Utf8Encode(cp) ==
    IF cp < 128 THEN <<cp>>
    ELSE IF cp < 2048 THEN <<192 + (cp \div 64), 128 + (cp % 64)>>
    ELSE IF cp < 65536
    THEN <<224 + (cp \div 4096), 128 + ((cp \div 64) % 64), 128 + (cp % 64)>>
    ELSE <<240 + (cp \div 262144), 128 + ((cp \div 4096) % 64), 128 + ((cp \div 64) % 64),
           128 + (cp % 64)>>

\* every character but the letters, the digits and "_", ".", "-", "~", which
\* urllib.parse.quote never encodes, becomes "%XY" for each of its bytes
RECURSIVE QuoteFrom(_, _)
QuoteFrom(s, from) ==
    LET escaped(bytes) ==
            [j \in 1..(3 * Len(bytes)) |->
                IF j % 3 = 1 THEN "%"
                ELSE IF j % 3 = 2 THEN HexUpper[(bytes[(j + 1) \div 3] \div 16) + 1]
                ELSE HexUpper[(bytes[j \div 3] % 16) + 1]]
        \* s[from..k-1], none of which is encoded, and the character at k
        upto(k) ==
            IF k > Len(s) THEN SubSeq(s, from, Len(s))
            ELSE SubSeq(s, from, k - 1) \o escaped(Utf8Encode(Ord(s[k])))
                     \o QuoteFrom(s, k + 1)
    IN  upto(FirstNotIn(s, from, Alnum \cup {"_", ".", "-", "~"}))

\* urllib.parse.quote(s, safe="")
quote(s) == QuoteFrom(s, 1)

----------------------------------------------------------------------------
(* Affiliate link pipeline: URL clean-up and the caption assembler         *)

\* the characters of url.strip().strip("[]()<>.,")
WrapPunct == {"[", "]", "(", ")", "<", ">", ".", ","}

_canonical_url(url) == StripSet(StripSet(url, Whitespace), WrapPunct)

\* the header of the link block: U+1F447 and "to buy on AliExpress" in Hebrew
\* (main.py:261, 281, 284)
BuyHeader ==
    <<"U+1F447", " ", "U+05DC", "U+05E7", "U+05E0", "U+05D9", "U+05D9", "U+05D4", " ", "U+05D1",
      "U+05D0", "U+05DC", "U+05D9", "U+05D0", "U+05E7", "U+05E1", "U+05E4", "U+05E8", "U+05E1">>

\* end of the match of \S+ after a prefix of p characters at i; 0 when the
\* prefix did not match (p = 0) or no character follows it
MatchEnd(s, i, p) ==
    IF p = 0 \/ i + p > Len(s) \/ s[i + p] \in Whitespace THEN 0
    ELSE NonSpaceRunEnd(s, i + p)

\* re.compile(r"https?://\S+"): end of the match that starts at i, 0 if none
UrlMatchEnd(s, i) ==
    MatchEnd(s, i, IF ~StartsWithAt(s, i, <<"h", "t", "t", "p">>) THEN 0
                   ELSE IF StartsWithAt(s, i + 4, <<"s", ":", "/", "/">>) THEN 8
                   ELSE IF StartsWithAt(s, i + 4, <<":", "/", "/">>) THEN 7
                   ELSE 0)

\* re.compile(r"https?%3A%2F%2F\S+", re.IGNORECASE): end of the match at i
EncodedUrlMatchEnd(s, i) ==
    MatchEnd(s, i,
             IF ~StartsWithAtIC(s, i, <<"h", "t", "t", "p">>) THEN 0
             ELSE IF StartsWithAtIC(s, i + 4, <<"s", "%", "3", "a", "%", "2", "f", "%", "2", "f">>)
             THEN 14
             ELSE IF StartsWithAtIC(s, i + 4, <<"%", "3", "a", "%", "2", "f", "%", "2", "f">>)
             THEN 13
             ELSE 0)

PatternMatchEnd(s, i, encoded) ==
    IF encoded THEN EncodedUrlMatchEnd(s, i) ELSE UrlMatchEnd(s, i)

\* pattern.sub(_replacer, cleaned) from position from on: the first match
\* whose decoded text contains the affiliate link becomes the link, every
\* other match becomes ""; seen is the closure's seen_affiliate
RECURSIVE SubFrom(_, _, _, _, _)
SubFrom(s, from, encoded, normalized_aff, seen) ==
    LET \* the match s[i..e] replaced (by the link when hit) before the outcome
        \* r of the substitution over the rest of s
        joined(i, hit, r) ==
            [out |-> SubSeq(s, from, i - 1)
                         \o (IF hit THEN normalized_aff ELSE << >>) \o r.out,
             seen |-> r.seen]
        replaced(i, e, hit) ==
            joined(i, hit, SubFrom(s, e + 1, encoded, normalized_aff, seen \/ hit))
        \* _replacer on the match s[i..e]
        _replacer(i, e) ==
            replaced(i, e, Contains(_canonical_url(unquote(SubSeq(s, i, e))), normalized_aff)
                               /\ ~seen)
        first(matches) ==
            IF matches = {} THEN [out |-> SubSeq(s, from, Len(s)), seen |-> seen]
            ELSE _replacer(CHOOSE k \in matches : \A j \in matches : k <= j,
                           PatternMatchEnd(s, CHOOSE k \in matches : \A j \in matches : k <= j,
                                           encoded))
    IN  first({k \in from..Len(s) : PatternMatchEnd(s, k, encoded) > 0})

\* the second pattern.sub, over the percent-encoded URLs of the first one's
\* output (main.py:257)
EncodedPass(p1, normalized_aff) == SubFrom(p1.out, 1, TRUE, normalized_aff, p1.seen)

\* main.py:260-262: the header and the link appended when no match was the link
AppendIfMissing(p2, normalized_aff, append_if_missing) ==
    IF append_if_missing /\ ~p2.seen
    THEN StripSet(RStripSet(p2.out, Whitespace)
                      \o <<"\n", "\n">> \o BuyHeader \o <<":", "\n">> \o normalized_aff,
                  Whitespace)
    ELSE p2.out

\* main.py:264-266: every occurrence of the link but the last is removed
DropExtraOccurrences(cleaned, normalized_aff) ==
    IF Count(cleaned, normalized_aff) > 1
    THEN Replace(cleaned, normalized_aff, << >>, Count(cleaned, normalized_aff) - 1)
    ELSE cleaned

\* main.py:260-268 on the outcome p2 of the two substitutions
StripResult(p2, normalized_aff, append_if_missing) ==
    [cleaned |-> StripSet(DropExtraOccurrences(
                              AppendIfMissing(p2, normalized_aff, append_if_missing),
                              normalized_aff),
                          Whitespace),
     seen |-> p2.seen \/ append_if_missing]

\* _strip_urls_with_affiliate: <<cleaned, seen_affiliate>> as a record
_strip_urls_with_affiliate(content, affiliate_url, append_if_missing) ==
    StripResult(EncodedPass(SubFrom(content, 1, FALSE, _canonical_url(affiliate_url), FALSE),
                            _canonical_url(affiliate_url)),
                _canonical_url(affiliate_url), append_if_missing)

strip_non_affiliate_links(content, affiliate_url) ==
    _strip_urls_with_affiliate(content, affiliate_url, FALSE).cleaned

\* ensure_affiliate_link: <<content, appended>> as a record
ensure_affiliate_link(content, affiliate_url) ==
    LET normalized == _canonical_url(affiliate_url)
    IN  IF Contains(content, normalized)
        THEN [content |-> content, appended |-> FALSE]
        ELSE IF Contains(content, BuyHeader)
        THEN [content |-> RStripSet(content, Whitespace) \o <<"\n">> \o normalized,
              appended |-> TRUE]
        ELSE [content |-> RStripSet(content, Whitespace)
                              \o <<"\n", "\n">> \o BuyHeader \o <<":", "\n">> \o normalized,
              appended |-> TRUE]

\* main.py:290-292: the second pass runs only when the first saw no link
EnforceFrom(first, affiliate_url) ==
    IF first.seen
    THEN first.cleaned
    ELSE _strip_urls_with_affiliate(first.cleaned, affiliate_url, TRUE).cleaned

enforce_single_affiliate_link(content, affiliate_url) ==
    EnforceFrom(_strip_urls_with_affiliate(content, affiliate_url, FALSE), affiliate_url)

\* the caption as process_channel assembles it (main.py:682-687)
AssembleCaption(new_caption, affiliate_url) ==
    enforce_single_affiliate_link(
        ensure_affiliate_link(strip_non_affiliate_links(new_caption, affiliate_url),
                              affiliate_url).content,
        affiliate_url)

----------------------------------------------------------------------------
(* AffiliateLinkBuilder                                                    *)

\* JSON values of the affiliate API's response, as far as _from_api looks:
\* a string, null, or an object (a function from its keys to JSON values)
JStr(x) == [t |-> "str", s |-> x, d |-> << >>]

JNull == [t |-> "null", s |-> << >>, d |-> << >>]

JDict(f) == [t |-> "dict", s |-> << >>, d |-> f]

\* dict.get(key, default) on a JSON object
JGet(obj, key, default) == IF key \in DOMAIN obj.d THEN obj.d[key] ELSE default

\* data.get(outer, {}).get(inner): raises AttributeError when the value under
\* outer is not an object
NestedRaises(data, outer) == JGet(data, outer, JDict(<< >>)).t # "dict"

NestedGet(data, outer, inner) == JGet(JGet(data, outer, JDict(<< >>)), inner, JNull)

\* isinstance(candidate, str) and candidate.strip()
IsLinkCandidate(c) == c.t = "str" /\ StripSet(c.s, Whitespace) # << >>

\* AffiliateLinkBuilder._from_api, given the outcome of the HTTP call:
\*   response.kind = "failed"    the POST or raise_for_status() raised
\*   response.kind = "not_json"  response.json() raised
\*   response.kind = "json"      response.data is the parsed body
\* The result is [raised, link]; link = << >> for None.
_from_api(config, original_url, response) ==
    IF config.affiliate_api_endpoint = << >> THEN [raised |-> FALSE, link |-> << >>]
    ELSE IF response.kind # "json" THEN [raised |-> FALSE, link |-> << >>]
    ELSE LET data == response.data
             isdict == data.t = "dict"
             candidates ==
                 IF isdict
                 THEN << JGet(data, "affiliate_link", JNull),
                         JGet(data, "promotion_link", JNull),
                         NestedGet(data, "data", "affiliate_link"),
                         NestedGet(data, "data", "promotion_link"),
                         NestedGet(data, "data", "link"),
                         NestedGet(data, "result", "promotion_link") >>
                 ELSE << JNull, JNull, JNull, JNull, JNull, JNull >>
         IN  IF isdict /\ (NestedRaises(data, "data") \/ NestedRaises(data, "result"))
             THEN [raised |-> TRUE, link |-> << >>]
             ELSE IF \E k \in 1..6 : IsLinkCandidate(candidates[k])
             THEN LET k == CHOOSE i \in 1..6 :
                               /\ IsLinkCandidate(candidates[i])
                               /\ \A j \in 1..(i - 1) : ~IsLinkCandidate(candidates[j])
                  IN  [raised |-> FALSE, link |-> _canonical_url(candidates[k].s)]
             ELSE [raised |-> FALSE, link |-> << >>]

UrlPlaceholder == <<"{", "u", "r", "l", "}">>

\* AffiliateLinkBuilder._from_portal_template; << >> for None
_from_portal_template(config, encoded_url) ==
    IF config.affiliate_portal_template = << >> THEN << >>
    ELSE IF Contains(config.affiliate_portal_template, UrlPlaceholder)
    THEN StripSet(Replace(config.affiliate_portal_template, UrlPlaceholder, encoded_url,
                          Len(config.affiliate_portal_template)),
                  Whitespace)
    ELSE StripSet(config.affiliate_portal_template, Whitespace)

\* AffiliateLinkBuilder._from_prefix; << >> for None
_from_prefix(config, encoded_url) ==
    IF config.affiliate_prefix = << >> THEN << >>
    ELSE config.affiliate_prefix \o encoded_url

\* `cleaned` of build (main.py:364): what goes to the API as payload["url"]
\* and, percent-encoded, into the template and the prefix
CleanedUrl(original_url) == _canonical_url(unquote(original_url))

\* build trying the prefix before the API and the template
build_PrefixFirst(config, original_url, response) ==
    LET first(api, portal_link, prefix_link) ==
            IF prefix_link # << >>
            THEN [raised |-> FALSE, link |-> prefix_link, origin |-> "prefix"]
            ELSE IF api.raised THEN [raised |-> TRUE, link |-> << >>, origin |-> "api"]
            ELSE IF api.link # << >>
            THEN [raised |-> FALSE, link |-> api.link, origin |-> "api"]
            ELSE IF portal_link # << >>
            THEN [raised |-> FALSE, link |-> portal_link, origin |-> "template"]
            ELSE [raised |-> TRUE, link |-> << >>, origin |-> "none"]
        strategies(cleaned, encoded) ==
            first(_from_api(config, cleaned, response),
                  _from_portal_template(config, encoded),
                  _from_prefix(config, encoded))
        from(cleaned) == strategies(cleaned, quote(cleaned))
    IN  from(CleanedUrl(original_url))

\* AffiliateLinkBuilder.build: [raised, link, origin]; the first of the API,
\* the template and the prefix that gives a link (main.py:366-380)
build(config, original_url, response) ==
    LET first(api, portal_link, prefix_link) ==
            IF api.raised THEN [raised |-> TRUE, link |-> << >>, origin |-> "api"]
            ELSE IF api.link # << >>
            THEN [raised |-> FALSE, link |-> api.link, origin |-> "api"]
            ELSE IF portal_link # << >>
            THEN [raised |-> FALSE, link |-> portal_link, origin |-> "template"]
            ELSE IF prefix_link # << >>
            THEN [raised |-> FALSE, link |-> prefix_link, origin |-> "prefix"]
            ELSE [raised |-> TRUE, link |-> << >>, origin |-> "none"]
        \* cleaned (main.py:364) and encoded (main.py:365)
        strategies(cleaned, encoded) ==
            first(_from_api(config, cleaned, response),
                  _from_portal_template(config, encoded),
                  _from_prefix(config, encoded))
        from(cleaned) == strategies(cleaned, quote(cleaned))
    IN  from(CleanedUrl(original_url))

----------------------------------------------------------------------------
(* Caption creator                                                         *)

\* glyphs of _fallback_caption (main.py:414-423)
DefaultHeadline ==
    <<"U+05DE", "U+05E6", "U+05D0", "U+05EA", "U+05D9", " ", "U+05D3", "U+05D9", "U+05DC", " ",
      "U+05E9", "U+05E9", "U+05D5", "U+05D5", "U+05D4", " ", "U+05DC", "U+05D4", "U+05E6",
      "U+05D9", "U+05E5", " ", "U+05D1", "U+05D5">>

DetailsLine ==
    <<"U+05D4", "U+05E0", "U+05D4", " ", "U+05D4", "U+05E4", "U+05E8", "U+05D8", "U+05D9",
      "U+05DD", " ", "U+05D1", "U+05E7", "U+05E6", "U+05E8", "U+05D4", ":">>

Bullet == <<"U+2022", " ">>

MoreInLink ==
    <<"U+05DC", "U+05E4", "U+05E8", "U+05D8", "U+05D9", "U+05DD", " ", "U+05E0", "U+05D5",
      "U+05E1", "U+05E4", "U+05D9", "U+05DD", " ", "U+05D1", "U+05E7", "U+05D9", "U+05E9",
      "U+05D5", "U+05E8">>

\* the line boundaries of str.splitlines(): the code points 10-13, 28-30,
\* 133, 8232 and 8233
LineBreaks ==
    {"\n", "U+000B", "U+000C", "\r", "U+001C", "U+001D", "U+001E", "U+0085", "U+2028",
     "U+2029"}

\* str.splitlines() from position i on; \r\n is one boundary
RECURSIVE SplitLinesFrom(_, _)
SplitLinesFrom(s, i) ==
    LET \* the line that ends before the boundary at e, and the lines after it
        line(e) ==
            <<SubSeq(s, i, e - 1)>>
                \o SplitLinesFrom(s, IF e < Len(s) /\ s[e] = "\r" /\ s[e + 1] = "\n"
                                     THEN e + 2 ELSE e + 1)
    IN  IF i > Len(s) THEN << >> ELSE line(FirstIn(s, i, LineBreaks))

\* "\n".join(lines)
RECURSIVE JoinLines(_)
JoinLines(lines) ==
    IF lines = << >> THEN << >>
    ELSE IF Len(lines) = 1 THEN lines[1]
    ELSE lines[1] \o <<"\n">> \o JoinLines(Tail(lines))

\* [line for line in lines if line.strip()]
RECURSIVE NonBlankLines(_)
NonBlankLines(lines) ==
    IF lines = << >> THEN << >>
    ELSE IF StripSet(lines[1], Whitespace) # << >>
    THEN <<lines[1]>> \o NonBlankLines(Tail(lines))
    ELSE NonBlankLines(Tail(lines))

_fallback_caption(orig_text, affiliate_url) ==
    LET upto(n, lines) == IF Len(lines) < n THEN Len(lines) ELSE n
        bullet_block(bullets) ==
            IF bullets # << >>
            THEN JoinLines([k \in 1..Len(bullets) |->
                               Bullet \o StripSet(bullets[k], Whitespace)])
            ELSE Bullet \o MoreInLink
        \* main.py:418-426, picked being the non-blank lines of cleaned[1:6]
        caption(headline, picked) ==
            StripSet(JoinLines(<<headline, DetailsLine,
                                 bullet_block(SubSeq(picked, 1, upto(4, picked))),
                                 BuyHeader \o <<":">>, _canonical_url(affiliate_url)>>),
                     Whitespace)
        \* main.py:414-417
        from(cleaned) ==
            caption(IF cleaned # << >> THEN cleaned[1] ELSE DefaultHeadline,
                    NonBlankLines(SubSeq(cleaned, 2, upto(6, cleaned))))
    IN  from(SplitLinesFrom(StripSet(orig_text, Whitespace), 1))

\* CaptionWriter.write, given the outcome of the chat-completion call:
\*   completion.kind = "raised"   the call raised
\*   completion.kind = "content"  completion.content is message.content
\*                                (<< >> for None or "")
\* The result is [raised, caption].
write(orig_text, affiliate_url, completion) ==
    IF completion.kind = "raised" THEN [raised |-> TRUE, caption |-> << >>]
    ELSE IF StripSet(completion.content, Whitespace) = << >>
    THEN [raised |-> FALSE, caption |-> _fallback_caption(orig_text, affiliate_url)]
    ELSE [raised |-> FALSE, caption |-> StripSet(completion.content, Whitespace)]

----------------------------------------------------------------------------
(* Deal bot: link extraction, identifiers, quality filter                  *)

AliDomain == <<"a", "l", "i", "e", "x", "p", "r", "e", "s", "s", ".", "c", "o", "m">>

\* length of the scheme prefix http:// or https:// at i, ignoring case; 0 if none
SchemeLenIC(s, i) ==
    IF ~StartsWithAtIC(s, i, <<"h", "t", "t", "p">>) THEN 0
    ELSE IF StartsWithAtIC(s, i + 4, <<"s", ":", "/", "/">>) THEN 8
    ELSE IF StartsWithAtIC(s, i + 4, <<":", "/", "/">>) THEN 7
    ELSE 0

\* ali_regex = https?://[^\s]*aliexpress\.com[^\s]* (IGNORECASE) matches at i
AliMatchAt(s, i) ==
    \E p \in {SchemeLenIC(s, i)} :
        /\ p > 0
        /\ \E k \in (i + p)..(NonSpaceRunEnd(s, i + p) - Len(AliDomain) + 1) :
               StartsWithAtIC(s, k, AliDomain)

\* extract_aliexpress_links(text)[0], << >> when there is no link
FirstAliLink(text) ==
    LET link(i) == SubSeq(text, i, NonSpaceRunEnd(text, i))
        first(matches) ==
            IF matches = {} THEN << >>
            ELSE link(CHOOSE k \in matches : \A j \in matches : k <= j)
    IN  first({k \in 1..Len(text) : AliMatchAt(text, k)})

ClickHost == <<"s", ".", "c", "l", "i", "c", "k", ".", "a", "l", "i", "e", "x", "p", "r", "e", "s", "s", ".", "c", "o", "m">>

\* s\.click\.aliexpress\.com/(?:e|aw)/(_?[A-Za-z0-9]+) (IGNORECASE) at i:
\* the captured group, << >> when the pattern does not match at i
ClickGroupAt(s, i) ==
    LET \* the group starts at g (0: no match that far), its letters and
        \* digits at t and end at e
        group(g, t, e) == IF g = 0 \/ e < t THEN << >> ELSE SubSeq(s, g, e)
        letters(g, t) ==
            group(g, t, RunEnd(s, t, Alnum \cup {"U+0130", "U+0131", "U+017F", "U+212A"}))
        from(g) == letters(g, IF g > 0 /\ g <= Len(s) /\ s[g] = "_" THEN g + 1 ELSE g)
    IN  from(IF ~StartsWithAtIC(s, i, ClickHost) THEN 0
             ELSE IF StartsWithAtIC(s, i + Len(ClickHost), <<"/", "e", "/">>)
             THEN i + Len(ClickHost) + 3
             ELSE IF StartsWithAtIC(s, i + Len(ClickHost), <<"/", "a", "w", "/">>)
             THEN i + Len(ClickHost) + 4
             ELSE 0)

Html == <<".", "h", "t", "m", "l">>

\* <lead>(\d+)\.html at i: the digits, << >> when the pattern does not match
DigitsHtmlAt(s, i, lead) ==
    LET \* the digits s[d..e]
        digits(d, e) ==
            IF e >= d /\ StartsWithAt(s, e + 1, Html) THEN SubSeq(s, d, e) ELSE << >>
    IN  IF StartsWithAt(s, i, lead)
        THEN digits(i + Len(lead), RunEnd(s, i + Len(lead), DecimalDigits))
        ELSE << >>

\* re.search: the group of the leftmost match
FirstClickGroup(s) ==
    LET first(matches) ==
            IF matches = {} THEN << >>
            ELSE ClickGroupAt(s, CHOOSE i \in matches : \A j \in matches : i <= j)
    IN  first({i \in 1..Len(s) : ClickGroupAt(s, i) # << >>})

FirstDigitsHtml(s, lead) ==
    LET first(matches) ==
            IF matches = {} THEN << >>
            ELSE DigitsHtmlAt(s, CHOOSE i \in matches : \A j \in matches : i <= j, lead)
    IN  first({i \in 1..Len(s) : DigitsHtmlAt(s, i, lead) # << >>})

\* str.split("?")[0]
BeforeQuery(s) ==
    LET q == Find(s, <<"?">>, 1)
    IN  IF q = 0 THEN s ELSE SubSeq(s, 1, q - 1)

\* which rule of normalize_aliexpress_id decides: "click", "item", "digits",
\* or "fallback" (the URL itself up to the query)
IdRule(url) ==
    LET normalized_url == _canonical_url(url)
    IN  IF FirstClickGroup(normalized_url) # << >> THEN "click"
        ELSE IF FirstDigitsHtml(normalized_url, <<"/", "i", "t", "e", "m", "/">>) # << >> THEN "item"
        ELSE IF FirstDigitsHtml(normalized_url, <<"/">>) # << >> THEN "digits"
        ELSE "fallback"

normalize_aliexpress_id(url) ==
    LET id(normalized_url, rule) ==
            IF rule = "click" THEN LStripSet(FirstClickGroup(normalized_url), {"_"})
            ELSE IF rule = "item"
            THEN FirstDigitsHtml(normalized_url, <<"/", "i", "t", "e", "m", "/">>)
            ELSE IF rule = "digits" THEN FirstDigitsHtml(normalized_url, <<"/">>)
            ELSE BeforeQuery(normalized_url)
    IN  id(_canonical_url(url), IdRule(url))

\* format_message
format_message(content, product_id) ==
    content \o <<"\n", "\n", "(", "i", "d", ":">> \o product_id \o <<")">>

\* the tag already_posted looks for: f"(id:{product_id})"
IdTag(product_id) == <<"(", "i", "d", ":">> \o product_id \o <<")">>

\* resolve_final_url without the short-link test: the GET is issued for
\* every URL once resolution is enabled
resolve_final_url_Eager(url, enabled, http) ==
    IF ~enabled THEN [url |-> url, requested |-> FALSE]
    ELSE IF http.kind = "response" /\ http.history /\ http.url # << >>
    THEN [url |-> http.url, requested |-> TRUE]
    ELSE [url |-> _canonical_url(url), requested |-> TRUE]

\* resolve_final_url, given the outcome of the redirect-following GET:
\*   http.kind = "raised"    httpx raised (transport error, timeout)
\*   http.kind = "response"  http.history tells whether a redirect was
\*                           followed, http.url is the landed URL
\* The result is [url, requested]; requested tells whether the GET was issued.
resolve_final_url(url, enabled, http) ==
    LET normalized == _canonical_url(url)
    IN  IF ~enabled THEN [url |-> url, requested |-> FALSE]
        ELSE IF ~Contains(LowerStr(normalized), ClickHost)
        THEN [url |-> normalized, requested |-> FALSE]
        ELSE IF http.kind = "response" /\ http.history /\ http.url # << >>
        THEN [url |-> http.url, requested |-> TRUE]
        ELSE [url |-> normalized, requested |-> TRUE]

\* the built-in keyword list (main.py:549)
Keywords ==
    << <<"U+20AA">>,
       <<"$">>,
       <<"d", "i", "s", "c", "o", "u", "n", "t">>,
       <<"c", "o", "u", "p", "o", "n">>,
       <<"U+05E7", "U+05D5", "U+05E4", "U+05D5", "U+05DF">>,
       <<"U+05D3", "U+05D9", "U+05DC">>,
       <<"U+05DE", "U+05D1", "U+05E6", "U+05E2">>,
       <<"%">>,
       <<"U+05E7", "U+05D5", "U+05D3">> >>

AnyIn(words, text) == \E k \in 1..Len(words) : Contains(text, words[k])

\* evaluate_post_quality: [ok, reason]; msg.views = -1 stands for None,
\* msg.age is the age in minutes at the time of the scan, -1 for no date
evaluate_post_quality(msg, config) ==
    LET text == LowerStr(msg.message)
        allow_sources == IF config.keyword_allowlist # << >> THEN config.keyword_allowlist
                         ELSE IF config.require_keywords THEN Keywords
                         ELSE << >>
        missing_reason == IF config.keyword_allowlist # << >>
                          THEN "missing allowlist keywords"
                          ELSE "missing keywords"
    IN  IF msg.message = << >> THEN [ok |-> FALSE, reason |-> "empty message"]
        ELSE IF config.keyword_blocklist # << >> /\ AnyIn(config.keyword_blocklist, text)
        THEN [ok |-> FALSE, reason |-> "blocked keyword"]
        ELSE IF allow_sources # << >> /\ ~AnyIn(allow_sources, text)
        THEN [ok |-> FALSE, reason |-> missing_reason]
        ELSE IF msg.views # -1 /\ msg.views < config.min_views
        THEN [ok |-> FALSE, reason |-> "below min views"]
        ELSE IF msg.age # -1 /\ msg.age > config.max_message_age_minutes
        THEN [ok |-> FALSE, reason |-> "too old"]
        ELSE [ok |-> TRUE, reason |-> "none"]

\* limit=300 of the destination-feed scan in already_posted
FeedLookback == 300

\* index of the oldest message iter_messages(target, limit=300) yields: the
\* scan covers the newest FeedLookback entries (the feed is kept oldest first)
OldestScanned(feedSeq) ==
    IF Len(feedSeq) > FeedLookback THEN Len(feedSeq) - FeedLookback + 1 ELSE 1

\* a feed scan that looks at the newest message only
already_posted_NewestOnly(feedSeq, product_id) ==
    /\ feedSeq # << >>
    /\ Contains(feedSeq[Len(feedSeq)], IdTag(product_id))

\* a feed scan that never finds a tag
already_posted_Blind(feedSeq, product_id) == FALSE

\* DealBot.already_posted over the feed; an entry without text (a media-only
\* or service message) is << >> and is passed over
already_posted(feedSeq, product_id) ==
    \E k \in OldestScanned(feedSeq)..Len(feedSeq) :
        /\ feedSeq[k] # << >>
        /\ Contains(feedSeq[k], IdTag(product_id))

\* the part of the destination channel a scan with limit=300 can reach
Newest(feedSeq) == SubSeq(feedSeq, OldestScanned(feedSeq), Len(feedSeq))

----------------------------------------------------------------------------
(* The worlds the bot runs in: links, source messages, configurations and  *)
(* the answers of the collaborators                                        *)

Http == <<"h", "t", "t", "p", ":", "/", "/">>

Https == <<"h", "t", "t", "p", "s", ":", "/", "/">>

ItemPath == <<"/", "i", "t", "e", "m", "/">>

\* "http://aliexpress.com/item/15.html?s=1"
LinkItemA == Http \o AliDomain \o ItemPath \o <<"1", "5">> \o Html \o <<"?", "s", "=", "1">>

\* the same product with another tracking parameter
LinkItemA2 == Http \o AliDomain \o ItemPath \o <<"1", "5">> \o Html \o <<"?", "s", "=", "2">>

\* "http://s.click.aliexpress.com/e/_aB", a short link to the same product
LinkShort == Http \o ClickHost \o <<"/", "e", "/", "_", "a", "B">>

\* where the short link lands: "http://aliexpress.com/item/15.html?x=9"
LandedA == Http \o AliDomain \o ItemPath \o <<"1", "5">> \o Html \o <<"?", "x", "=", "9">>

\* "http://aliexpress.com/store/7": no identifier rule matches
LinkStore == Http \o AliDomain \o <<"/", "s", "t", "o", "r", "e", "/", "7">>

\* "http://aliexpress.com/item/26.html"
LinkItemB == Http \o AliDomain \o ItemPath \o <<"2", "6">> \o Html

\* "https://api.co/l"
ApiEndpoint == Https \o <<"a", "p", "i", ".", "c", "o", "/", "l">>

\* "https://p.co/?u={url}"
PortalTemplate == Https \o <<"p", ".", "c", "o", "/", "?", "u", "=">> \o UrlPlaceholder

\* "https://p.co/me": a template without placeholder
PortalVerbatim == Https \o <<"p", ".", "c", "o", "/", "m", "e">>

\* "https://x.co/?t="
AffiliatePrefix == Https \o <<"x", ".", "c", "o", "/", "?", "t", "=">>

\* "https://s.click.aliexpress.com/e/_oQ": the link the affiliate API returns
ApiLink == Https \o ClickHost \o <<"/", "e", "/", "_", "o", "Q">>

\* "https://evil.co/z": a foreign link a caption may carry
EvilLink == Https \o <<"e", "v", "i", "l", ".", "c", "o", "/", "z">>

Msg(text, media, views, age) ==
    [message |-> text, media |-> media, views |-> views, age |-> age]

MsgA == Msg(<<"D", "e", "a", "l", " ", "$", "5", " ">> \o LinkItemA, TRUE, 2000, 10)

MsgA2 == Msg(<<"H", "o", "t", "\n">> \o LinkItemA2 \o <<"\n", "5", "0", "%">>, FALSE, 3000, 20)

MsgShort == Msg(<<"W", "o", "w", " ">> \o LinkShort, TRUE, -1, 5)

MsgStore == Msg(<<"S", "h", "o", "p", " ">> \o LinkStore, FALSE, 2000, -1)

\* a message with two links
MsgB == Msg(LinkItemB \o <<" ", "o", "r", " ">> \o LinkItemA2, TRUE, 2000, 30)

MsgNoLink == Msg(<<"h", "e", "l", "l", "o">>, FALSE, 2000, 10)

MsgLowViews == Msg(<<"M", "e", "h", " ">> \o LinkItemB, FALSE, 10, 10)

MsgNoText == Msg(<< >>, TRUE, 2000, 10)

\* what iter_messages yields per source channel, in the order it yields
SourceWorlds ==
    { [c1 |-> <<MsgA, MsgA2>>, c2 |-> <<MsgShort>>],
      [c1 |-> <<MsgStore, MsgNoLink>>, c2 |-> <<MsgB, MsgLowViews>>],
      [c1 |-> <<MsgNoText, MsgB>>, c2 |-> <<MsgA2, MsgA>>] }

\* an earlier post of product 15 on the destination feed
OldPostA == format_message(<<"O", "l", "d">>, <<"1", "5">>)

InitialFeeds == { << >>, <<OldPostA>> }

\* the configurations the model runs, but for MAX_POSTS_PER_RUN: the affiliate
\* link sources (Config.from_env accepts a configuration when at least one
\* of the three is set), DRY_RUN, RESOLVE_REDIRECTS, MESSAGE_COOLDOWN_SECONDS.
\* The last two have an AFFILIATE_PORTAL_LINK that ends with a full stop
\* ("https://p.co/?u={url}.") or is a full stop alone ("."), whose canonical
\* form is the empty string.
ConfigVariants ==
    { [endpoint |-> ApiEndpoint, template |-> << >>, prefix |-> << >>,
       dry |-> FALSE, resolve |-> TRUE, cooldown |-> 5],
      [endpoint |-> ApiEndpoint, template |-> PortalTemplate, prefix |-> AffiliatePrefix,
       dry |-> TRUE, resolve |-> TRUE, cooldown |-> 0],
      [endpoint |-> ApiEndpoint, template |-> PortalTemplate, prefix |-> AffiliatePrefix,
       dry |-> FALSE, resolve |-> FALSE, cooldown |-> 5],
      [endpoint |-> << >>, template |-> PortalVerbatim, prefix |-> AffiliatePrefix,
       dry |-> FALSE, resolve |-> FALSE, cooldown |-> 5],
      [endpoint |-> << >>, template |-> << >>, prefix |-> AffiliatePrefix,
       dry |-> FALSE, resolve |-> TRUE, cooldown |-> 0],
      [endpoint |-> << >>, template |-> PortalTemplate \o <<".">>, prefix |-> << >>,
       dry |-> FALSE, resolve |-> FALSE, cooldown |-> 0],
      [endpoint |-> << >>, template |-> <<".">>, prefix |-> << >>,
       dry |-> TRUE, resolve |-> FALSE, cooldown |-> 0] }

\* largest MAX_POSTS_PER_RUN the model configures
MaxPostsLimit == 2

\* number of runs (main() invocations) the model follows
MaxRuns == 2

MakeConfig(v, maxPosts) ==
    [ tg_source_channels |-> <<"c1", "c2">>,
      affiliate_api_endpoint |-> v.endpoint,
      affiliate_portal_template |-> v.template,
      affiliate_prefix |-> v.prefix,
      min_views |-> 1500,
      max_messages_per_channel |-> 80,
      dry_run |-> v.dry,
      require_keywords |-> FALSE,
      max_posts_per_run |-> maxPosts,
      message_cooldown_seconds |-> v.cooldown,
      max_message_age_minutes |-> 240,
      keyword_allowlist |-> << >>,
      keyword_blocklist |-> << >>,
      resolve_redirects |-> v.resolve ]

Configs == { MakeConfig(v, maxPosts) : v \in ConfigVariants, maxPosts \in 1..MaxPostsLimit }

\* outcomes of the redirect-following GET for a short link
HttpOutcomes ==
    { [kind |-> "raised", history |-> FALSE, url |-> << >>],
      [kind |-> "response", history |-> TRUE, url |-> LandedA] }

\* outcomes of the affiliate API call
ApiOutcomes ==
    { [kind |-> "failed", data |-> JNull],
      [kind |-> "json", data |-> JDict([error_response |-> JDict([msg |-> JStr(<<"b", "a", "d">>)])])],
      [kind |-> "json", data |-> JDict([promotion_link |-> JStr(ApiLink)])],
      [kind |-> "json", data |-> JDict([data |-> JNull])] }

\* outcomes of the chat-completion call of the caption writer
Completions(affiliate_url) ==
    { [kind |-> "raised", content |-> << >>],
      [kind |-> "content", content |-> << >>],
      [kind |-> "content",
       content |-> <<"N", "i", "c", "e", "\n">> \o BuyHeader \o <<":", "\n">> \o affiliate_url],
      [kind |-> "content",
       content |-> <<"S", "e", "e", " ">> \o EvilLink] }

----------------------------------------------------------------------------
(* DealBot.run and DealBot.process_channel as a state machine              *)

VARIABLES
    config,                 \* the Config of the process
    sources,                \* source channel -> the messages iter_messages yields
    feed,                   \* texts of the newest messages of the destination
                            \* channel, oldest first: what iter_messages(limit=300)
                            \* can yield
    earlier_published,      \* history: identifiers delivered to the destination
                            \* by earlier runs
    run_no,                 \* which invocation of main() this is
    processed_product_ids,  \* DealBot.processed_product_ids
    pc,                     \* where run / process_channel stands
    chan,                   \* index of the channel process_channel scans
    pos,                    \* messages of that channel already taken
    posted_count,           \* process_channel's posted_count
    skip_reasons,           \* process_channel's skip_reasons
    total_posted,           \* run's total_posted
    cand,                   \* locals of the current loop iteration
    calls,                  \* calls to collaborators made for the current candidate
    posted_log              \* identifiers published (send_success) in this run, in order

vars == <<config, sources, feed, earlier_published, run_no, processed_product_ids, pc, chan, pos,
          posted_count, skip_reasons, total_posted, cand, calls, posted_log>>

SkipReasonNames ==
    {"no aliexpress link", "empty message", "blocked keyword",
     "missing allowlist keywords", "missing keywords", "below min views", "too old",
     "duplicate this run", "duplicate previously posted", "rewrite error fallback"}

NoSkips == [r \in SkipReasonNames |-> 0]

\* _mark_skip
_mark_skip(reasons, reason) == [reasons EXCEPT ![reason] = @ + 1]

NoCand ==
    [ message |-> << >>, media |-> FALSE, original_url |-> << >>, resolved_url |-> << >>,
      product_id |-> << >>, affiliate_url |-> << >>, origin |-> "none",
      rewrite |-> "none", final_text |-> << >>, outcome |-> "none" ]

NoCalls ==
    [ http_get |-> 0, feed_scan |-> 0, build |-> 0, api_post |-> 0, write |-> 0,
      send_file |-> 0, send_message |-> 0 ]

\* the channels taken from the end of the configured list
Channel_Reversed ==
    config.tg_source_channels[Len(config.tg_source_channels) + 1 - chan]

Channel == config.tg_source_channels[chan]

\* the loop head being reached while an iteration is suspended at an await
LoopHead_WhileAwaiting == pc \in {"loop", "scan", "send", "send_message", "sleep"}

\* process_channel is at the head of `async for msg in ...` (main.py:623): the
\* iterator is asked for the next message only when the body of the previous
\* iteration has ended
LoopHead == pc = "loop"

\* the iterator of iter_messages(channel, limit=max_messages_per_channel) is used up
Exhausted ==
    \/ pos >= Len(sources[Channel])
    \/ pos >= config.max_messages_per_channel

Init ==
    /\ config \in Configs
    /\ sources \in SourceWorlds
    /\ feed \in InitialFeeds
    /\ earlier_published = {}
    /\ run_no = 1
    /\ processed_product_ids = {}
    /\ pc = "idle"
    /\ chan = 1
    /\ pos = 0
    /\ posted_count = 0
    /\ skip_reasons = NoSkips
    /\ total_posted = 0
    /\ cand = NoCand
    /\ calls = NoCalls
    /\ posted_log = << >>

\* DealBot.run up to the first process_channel call
RunStart ==
    /\ pc = "idle"
    /\ pc' = "loop"
    /\ chan' = 1
    /\ pos' = 0
    /\ posted_count' = 0
    /\ skip_reasons' = NoSkips
    /\ total_posted' = 0
    /\ UNCHANGED <<config, sources, feed, earlier_published, run_no, processed_product_ids, cand, calls,
                   posted_log>>

\* the loop head: the next message of the channel and the checks that need no
\* collaborator (main.py:623-646)
FetchMessage ==
    /\ LoopHead
    /\ ~Exhausted
    /\ LET msg == sources[Channel][pos + 1]
           link == FirstAliLink(msg.message)
           quality == evaluate_post_quality(msg, config)
           skipped(reason) ==
               /\ pc' = "loop"
               /\ cand' = [NoCand EXCEPT !.message = msg.message, !.outcome = reason]
               /\ skip_reasons' = _mark_skip(skip_reasons, reason)
       IN  /\ pos' = pos + 1
           /\ calls' = NoCalls
           /\ IF msg.message = << >>
              THEN /\ pc' = "loop"
                   /\ cand' = [NoCand EXCEPT !.outcome = "no text"]
                   /\ UNCHANGED skip_reasons
              ELSE IF link = << >> THEN skipped("no aliexpress link")
              ELSE IF ~quality.ok THEN skipped(quality.reason)
              ELSE /\ pc' = "resolve"
                   /\ cand' = [NoCand EXCEPT !.message = msg.message, !.media = msg.media,
                                             !.original_url = link]
                   /\ UNCHANGED skip_reasons
    /\ UNCHANGED <<config, sources, feed, earlier_published, run_no, processed_product_ids, chan,
                   posted_count, total_posted, posted_log>>

\* the in-run ledger check answering "not seen" for every identifier
AlreadyHandled_Never(product_id) == FALSE

\* `product_id in self.processed_product_ids` (main.py:658)
AlreadyHandled(product_id) == product_id \in processed_product_ids

\* resolve_final_url, normalize_aliexpress_id and the in-run ledger check
\* (main.py:647-661)
Resolve ==
    /\ pc = "resolve"
    /\ \E http \in HttpOutcomes :
         LET r == resolve_final_url(cand.original_url, config.resolve_redirects, http)
             product_id == normalize_aliexpress_id(r.url)
         IN  /\ (~r.requested => http.kind = "raised")
             /\ calls' = [calls EXCEPT !.http_get = IF r.requested THEN 1 ELSE 0]
             /\ IF AlreadyHandled(product_id)
                THEN /\ pc' = "loop"
                     /\ skip_reasons' = _mark_skip(skip_reasons, "duplicate this run")
                     /\ cand' = [cand EXCEPT !.resolved_url = r.url,
                                             !.product_id = product_id,
                                             !.outcome = "duplicate this run"]
                ELSE /\ pc' = "scan"
                     /\ cand' = [cand EXCEPT !.resolved_url = r.url,
                                             !.product_id = product_id]
                     /\ UNCHANGED skip_reasons
    /\ UNCHANGED <<config, sources, feed, earlier_published, run_no, processed_product_ids, chan, pos,
                   posted_count, total_posted, posted_log>>

\* `await self.already_posted(product_id)` (main.py:663-667); the scan of the
\* destination feed is a network call and may raise, and nothing catches it
ScanFeed ==
    /\ pc = "scan"
    /\ calls' = [calls EXCEPT !.feed_scan = @ + 1]
    /\ \E raised \in BOOLEAN :
         IF raised
         THEN /\ pc' = "crashed"
              /\ cand' = [cand EXCEPT !.outcome = "already_posted raised"]
              /\ UNCHANGED <<processed_product_ids, skip_reasons>>
         ELSE IF already_posted(feed, cand.product_id)
         THEN /\ pc' = "loop"
              /\ processed_product_ids' = processed_product_ids \cup {cand.product_id}
              /\ skip_reasons' = _mark_skip(skip_reasons, "duplicate previously posted")
              /\ cand' = [cand EXCEPT !.outcome = "duplicate previously posted"]
         ELSE /\ pc' = "build"
              /\ UNCHANGED <<processed_product_ids, skip_reasons, cand>>
    /\ UNCHANGED <<config, sources, feed, earlier_published, run_no, chan, pos, posted_count, total_posted,
                   posted_log>>

\* `self.affiliate_builder.build(resolved_url)` (main.py:669); an exception of
\* build is not caught by process_channel
Build ==
    /\ pc = "build"
    /\ \E response \in ApiOutcomes :
         LET b == build(config, cand.resolved_url, response)
             posts == IF config.affiliate_api_endpoint # << >> THEN 1 ELSE 0
         IN  /\ (posts = 0 => response.kind = "failed")
             /\ calls' = [calls EXCEPT !.build = @ + 1, !.api_post = @ + posts]
             /\ IF b.raised
                THEN /\ pc' = "crashed"
                     /\ cand' = [cand EXCEPT !.outcome = "build raised"]
                ELSE /\ pc' = "caption"
                     /\ cand' = [cand EXCEPT !.affiliate_url = b.link, !.origin = b.origin]
    /\ UNCHANGED <<config, sources, feed, earlier_published, run_no, processed_product_ids, chan, pos,
                   posted_count, skip_reasons, total_posted, posted_log>>

\* the text used when caption_writer.write raised (main.py:680)
RewriteErrorCaption(text, affiliate_url) ==
    text \o <<"\n", "\n">> \o BuyHeader \o <<":", "\n">> \o affiliate_url

\* new_caption of main.py:675-680: what write returned, or the text of the
\* except branch when it raised
NewCaption(w, orig_text, affiliate_url) ==
    IF w.raised THEN RewriteErrorCaption(orig_text, affiliate_url) ELSE w.caption

\* main.py:682-691: the text handed to the send step, and how the rewrite ended
CaptionOutcome(w, orig_text, affiliate_url, completion, product_id) ==
    [rewrite |-> IF w.raised THEN "raised"
                 ELSE IF StripSet(completion.content, Whitespace) = << >>
                 THEN "empty" ELSE "content",
     final_text |-> format_message(
                        AssembleCaption(NewCaption(w, orig_text, affiliate_url),
                                        affiliate_url),
                        product_id)]

\* main.py:675-680: the rewrite call on the chosen source text
CaptionFrom(orig_text, affiliate_url, completion, product_id) ==
    CaptionOutcome(write(orig_text, affiliate_url, completion),
                   orig_text, affiliate_url, completion, product_id)

\* `source_without_links or msg.message` (main.py:676, 680)
SourceText(message, source_without_links) ==
    IF source_without_links # << >> THEN source_without_links ELSE message

Caption ==
    /\ pc = "caption"
    /\ \E orig_text \in {SourceText(cand.message,
                                     strip_non_affiliate_links(cand.message,
                                                               cand.affiliate_url))},
          completion \in Completions(cand.affiliate_url) :
         \E r \in {CaptionFrom(orig_text, cand.affiliate_url, completion, cand.product_id)} :
             /\ cand' = [cand EXCEPT !.rewrite = r.rewrite, !.final_text = r.final_text]
             /\ skip_reasons' = IF r.rewrite = "raised"
                                THEN _mark_skip(skip_reasons, "rewrite error fallback")
                                ELSE skip_reasons
    /\ calls' = [calls EXCEPT !.write = @ + 1]
    /\ pc' = "send"
    /\ UNCHANGED <<config, sources, feed, earlier_published, run_no, processed_product_ids, chan, pos,
                   posted_count, total_posted, posted_log>>

\* the step after the send recording the identifier of a failed send too
AfterSend_RecordsUnsent(send_success) ==
    /\ posted_count' = IF send_success THEN posted_count + 1 ELSE posted_count
    /\ processed_product_ids' = processed_product_ids \cup {cand.product_id}
    /\ posted_log' = IF send_success THEN Append(posted_log, cand.product_id) ELSE posted_log
    /\ cand' = [cand EXCEPT !.outcome = IF send_success THEN "posted" ELSE "send failed"]
    /\ pc' = "loop"

\* the step after the send counting and recording whatever the send did
AfterSend_Optimistic(send_success) ==
    /\ posted_count' = posted_count + 1
    /\ processed_product_ids' = processed_product_ids \cup {cand.product_id}
    /\ posted_log' = Append(posted_log, cand.product_id)
    /\ cand' = [cand EXCEPT !.outcome = IF send_success THEN "posted" ELSE "send failed"]
    /\ pc' = "loop"

\* main.py:735-744: what follows the send step
AfterSend(send_success) ==
    IF send_success
    THEN /\ posted_count' = posted_count + 1
         /\ processed_product_ids' = processed_product_ids \cup {cand.product_id}
         /\ posted_log' = Append(posted_log, cand.product_id)
         /\ cand' = [cand EXCEPT !.outcome = "posted"]
         /\ pc' = IF posted_count + 1 >= config.max_posts_per_run THEN "break"
                  ELSE IF config.message_cooldown_seconds > 0 THEN "sleep"
                  ELSE "loop"
    ELSE /\ cand' = [cand EXCEPT !.outcome = "send failed"]
         /\ pc' = "loop"
         /\ UNCHANGED <<posted_count, processed_product_ids, posted_log>>

\* a dry run that calls send_message all the same
DryRunSend_Delivers ==
    /\ pc = "send"
    /\ config.dry_run
    /\ calls' = [calls EXCEPT !.send_message = @ + 1]
    /\ feed' = Newest(Append(feed, cand.final_text))
    /\ AfterSend(TRUE)
    /\ UNCHANGED <<config, sources, earlier_published, run_no, chan, pos, skip_reasons, total_posted>>

\* DRY_RUN: no delivery call, send_success = True (main.py:696-702)
DryRunSend ==
    /\ pc = "send"
    /\ config.dry_run
    /\ AfterSend(TRUE)
    /\ UNCHANGED <<config, sources, feed, earlier_published, run_no, chan, pos, skip_reasons, total_posted,
                   calls>>

\* a send step that sends the text message after a delivered send_file too
SendFile_AlsoSendsText ==
    /\ pc = "send"
    /\ ~config.dry_run
    /\ cand.media
    /\ calls' = [calls EXCEPT !.send_file = @ + 1]
    /\ feed' = Newest(Append(feed, cand.final_text))
    /\ pc' = "send_message"
    /\ UNCHANGED <<posted_count, processed_product_ids, posted_log, cand>>
    /\ UNCHANGED <<config, sources, earlier_published, run_no, chan, pos, skip_reasons, total_posted>>

\* client.send_file with the source media (main.py:704-719)
SendFile ==
    /\ pc = "send"
    /\ ~config.dry_run
    /\ cand.media
    /\ calls' = [calls EXCEPT !.send_file = @ + 1]
    /\ \E delivered \in BOOLEAN :
         IF delivered
         THEN /\ feed' = Newest(Append(feed, cand.final_text))
              /\ AfterSend(TRUE)
         ELSE /\ pc' = "send_message"
              /\ UNCHANGED <<feed, posted_count, processed_product_ids, posted_log, cand>>
    /\ UNCHANGED <<config, sources, earlier_published, run_no, chan, pos, skip_reasons, total_posted>>

\* client.send_message, when there is no media or send_file failed
\* (main.py:721-733)
SendMessage ==
    /\ \/ pc = "send_message"
       \/ pc = "send" /\ ~config.dry_run /\ ~cand.media
    /\ calls' = [calls EXCEPT !.send_message = @ + 1]
    /\ \E delivered \in BOOLEAN :
         /\ feed' = IF delivered THEN Newest(Append(feed, cand.final_text)) ELSE feed
         /\ AfterSend(delivered)
    /\ UNCHANGED <<config, sources, earlier_published, run_no, chan, pos, skip_reasons, total_posted>>

\* asyncio.sleep(message_cooldown_seconds) (main.py:743-744)
Cooldown ==
    /\ pc = "sleep"
    /\ pc' = "loop"
    /\ UNCHANGED <<config, sources, feed, earlier_published, run_no, processed_product_ids, chan, pos,
                   posted_count, skip_reasons, total_posted, cand, calls, posted_log>>

\* the end of process_channel (iterator used up, or break) and run's step to
\* the next channel (main.py:746-757, 771-776)
ChannelDone ==
    /\ \/ LoopHead /\ Exhausted
       \/ pc = "break"
    /\ total_posted' = total_posted + posted_count
    /\ cand' = NoCand
    /\ calls' = NoCalls
    /\ IF chan < Len(config.tg_source_channels)
       THEN /\ pc' = "loop"
            /\ chan' = chan + 1
            /\ pos' = 0
            /\ posted_count' = 0
            /\ skip_reasons' = NoSkips
       ELSE /\ pc' = "done"
            /\ UNCHANGED <<chan, pos, posted_count, skip_reasons>>
    /\ UNCHANGED <<config, sources, feed, earlier_published, run_no, processed_product_ids, posted_log>>

\* main() once more: a new process with a new DealBot over the same
\* configuration, sources and destination feed (main.py:794-810)
Main ==
    /\ pc \in {"done", "crashed"}
    /\ run_no < MaxRuns
    /\ run_no' = run_no + 1
    /\ processed_product_ids' = {}
    /\ pc' = "idle"
    /\ chan' = 1
    /\ pos' = 0
    /\ posted_count' = 0
    /\ skip_reasons' = NoSkips
    /\ total_posted' = 0
    /\ cand' = NoCand
    /\ calls' = NoCalls
    /\ posted_log' = << >>
    /\ earlier_published' = IF config.dry_run THEN earlier_published
                            ELSE earlier_published
                                     \cup {posted_log[i] : i \in 1..Len(posted_log)}
    /\ UNCHANGED <<config, sources, feed>>

\* what the other posters of the destination channel publish
ForeignPost == <<"n", "e", "w", "s">>

\* between two runs, before the new process starts its scan, the destination
\* channel receives FeedLookback posts of others: a scan with limit=300
\* (main.py:605) then ends before it reaches anything published earlier
ForeignPosts ==
    /\ pc = "idle"
    /\ run_no > 1
    /\ Len(feed) < FeedLookback
    /\ feed' = Newest(feed \o [k \in 1..FeedLookback |-> ForeignPost])
    /\ UNCHANGED <<config, sources, earlier_published, run_no, processed_product_ids, pc,
                   chan, pos, posted_count, skip_reasons, total_posted, cand, calls,
                   posted_log>>

Next ==
    \/ RunStart
    \/ FetchMessage
    \/ Resolve
    \/ ScanFeed
    \/ Build
    \/ Caption
    \/ DryRunSend
    \/ SendFile
    \/ SendMessage
    \/ Cooldown
    \/ ChannelDone
    \/ Main
    \/ ForeignPosts

Spec == Init /\ [][Next]_vars

----------------------------------------------------------------------------
(* Properties                                                              *)

\* identifiers published in the current run
PostedIds == {posted_log[i] : i \in 1..Len(posted_log)}

\* a message the feed scan can reach carries the tag of the identifier
TagInFeed(product_id) ==
    \E k \in 1..Len(feed) : Contains(feed[k], IdTag(product_id))

\* the positions of process_channel between the dedup checks and the send
PastDedup == {"scan", "build", "caption", "send", "send_message"}

\* C1: within one run no identifier is published twice; a candidate whose
\* identifier is already in processed_product_ids never gets past the in-run
\* check; and a candidate is reported as seen only when its identifier was
\* recorded or its tag is in the destination feed.
C1_AtMostOncePerRun ==
    /\ \A i, j \in 1..Len(posted_log) : posted_log[i] = posted_log[j] => i = j
    /\ pc \in PastDedup => cand.product_id \notin processed_product_ids
    /\ cand.outcome = "duplicate this run" => cand.product_id \in processed_product_ids
    /\ cand.outcome = "duplicate previously posted" => TagInFeed(cand.product_id)

\* C1 witness: a later candidate of an identifier this run published is
\* reported as seen
C1_Witness ==
    /\ cand.outcome = "duplicate this run"
    /\ cand.product_id \in PostedIds

\* C2 as stated: every identifier in processed_product_ids belongs to a post
\* that was delivered to the destination feed, dry runs included.
C2_RecordedMeansDelivered ==
    \A id \in processed_product_ids : TagInFeed(id)

\* C2 amended: with DRY_RUN off, every identifier in processed_product_ids
\* has its tag in a message of the destination feed (delivered by this run
\* or found there by already_posted).
C2_RecordedMeansDeliveredUnlessDryRun ==
    ~config.dry_run => \A id \in processed_product_ids : TagInFeed(id)

\* C2 witness: a real send was confirmed and its identifier recorded
C2_Witness ==
    /\ ~config.dry_run
    /\ cand.outcome = "posted"
    /\ cand.product_id \in processed_product_ids
    /\ TagInFeed(cand.product_id)

\* C3: a step in which send_message is called and nothing reaches the feed
\* (the last delivery attempt failed) leaves processed_product_ids and
\* posted_count as they were, and the scan goes on with the next message.
C3_FailedSendLeavesLedger ==
    [][(calls'.send_message = calls.send_message + 1 /\ feed' = feed)
         => /\ processed_product_ids' = processed_product_ids
            /\ posted_count' = posted_count
            /\ posted_log' = posted_log
            /\ pc' = "loop"]_vars

\* C3 witness: send_file and send_message both failed for a candidate
C3_Witness ==
    /\ cand.outcome = "send failed"
    /\ calls.send_file = 1
    /\ calls.send_message = 1
    /\ cand.product_id \notin processed_product_ids
    /\ pc = "loop"

\* C4 as stated: the publishes of one run, over all source channels, never
\* exceed max_posts_per_run.
C4_RunLimit ==
    Len(posted_log) <= config.max_posts_per_run

\* C5 as stated: a run publishes nothing for an identifier that an earlier
\* run delivered to the destination feed.
C5_NoRepublishAcrossRuns ==
    \A i \in 1..Len(posted_log) : posted_log[i] \notin earlier_published

\* C5 amended: a run publishes an identifier that an earlier run delivered
\* only when the earlier post is no longer among the newest 300 messages of
\* the destination feed; while the tag is within the lookback, nothing is
\* published for that identifier.
C5_NoRepublishWithinLookback ==
    [][(/\ Len(posted_log') > Len(posted_log)
        /\ ~config.dry_run
        /\ cand.product_id \in earlier_published)
         => ~TagInFeed(cand.product_id)]_vars

\* C5 witness: the second run meets a product the first run delivered and
\* skips it as previously posted
C5_Witness ==
    /\ run_no = 2
    /\ ~config.dry_run
    /\ cand.product_id \in earlier_published
    /\ cand.outcome = "duplicate previously posted"
    /\ cand.product_id \notin PostedIds

\* C6 as stated: build never raises and hands a non-empty link to the
\* caption step, whatever the accepted configuration and the API outcome.
C6_BuildAlwaysReturns ==
    /\ cand.outcome # "build raised"
    /\ pc = "caption" => cand.affiliate_url # << >>

\* C7 as stated: no failure met while processing a candidate ends the run;
\* the run never stops on an escaped exception.
C7_FailureContained ==
    pc # "crashed"

\* C8 as stated: when the caption writer raised or returned empty content,
\* the step still hands a text to the send step, that text contains the
\* affiliate link under the buy header, and the step taken from there is the
\* publish (a delivery call, or the simulated publish of a dry run).
C8_CaptionFailureStillPublishes ==
    [][/\ (pc = "caption" /\ cand'.rewrite \in {"raised", "empty"})
            => /\ pc' = "send"
               /\ Contains(cand'.final_text, BuyHeader)
               /\ Contains(cand'.final_text, cand.affiliate_url)
       /\ (pc = "send" /\ cand.rewrite \in {"raised", "empty"})
            => \/ calls'.send_file = calls.send_file + 1
               \/ calls'.send_message = calls.send_message + 1
               \/ config.dry_run /\ cand'.outcome = "posted"]_vars

\* an identifier no extraction rule produced: the URL itself
FallbackId == IdRule(cand.resolved_url) = "fallback"

\* C10 as stated: a candidate whose identifier is the fallback (no rule
\* matched) is never published, and its identifier is never embedded in a
\* post of the destination feed.
C10_FallbackIdNeverPublished ==
    (cand.product_id # << >> /\ FallbackId)
        => /\ cand.outcome # "posted"
           /\ pc \notin {"build", "caption", "send", "send_message"}
           /\ ~TagInFeed(cand.product_id)

\* C11 as stated: for one candidate at most one delivery call (send_file or
\* send_message) is made; a failed delivery is not followed by another
\* delivery call for the same candidate.
C11_NoSecondDeliveryCall ==
    calls.send_file + calls.send_message <= 1

\* C17: a candidate reported as a duplicate (of this run, or of the
\* destination feed) has had no build call, no affiliate API call, no caption
\* call and no delivery call; and whenever a candidate stands at the build,
\* the caption or the send step, its identifier is neither in
\* processed_product_ids nor tagged in the scanned feed.
C17_EarlyCheckBeforeAnyWork ==
    /\ cand.outcome \in {"duplicate this run", "duplicate previously posted"}
         => /\ calls.build = 0
            /\ calls.api_post = 0
            /\ calls.write = 0
            /\ calls.send_file = 0
            /\ calls.send_message = 0
    /\ pc \in {"build", "caption", "send", "send_message"}
         => /\ cand.product_id \notin processed_product_ids
            /\ ~TagInFeed(cand.product_id)

\* C17 witness: with the affiliate API configured, a candidate whose tag is
\* in the destination feed was dropped after the feed scan, before any call
\* to the builder, the API, the caption writer or the delivery
C17_Witness ==
    /\ cand.outcome = "duplicate previously posted"
    /\ config.affiliate_api_endpoint # << >>
    /\ calls.feed_scan = 1
    /\ calls.build = 0
    /\ calls.api_post = 0
    /\ calls.write = 0
    /\ calls.send_file + calls.send_message = 0

\* C22: the messages of a channel are taken one by one in the order the
\* source returned them, each only when the one before it is finished, and
\* the channels in configured order; a publish is that of the message just
\* taken, and its identifier was not recorded before, so of two messages of
\* a run with the same identifier the earlier one is the one published.
C22_ProcessedInSourceOrder ==
    [][/\ pos' # pos
            => \/ /\ pos' = pos + 1
                  /\ chan' = chan
                  /\ pc = "loop"
                  /\ cand'.message = sources[config.tg_source_channels[chan]][pos'].message
               \/ pos' = 0
       /\ chan' # chan
            => \/ chan' = chan + 1 /\ pos' = 0 /\ pc \in {"loop", "break"}
               \/ chan' = 1 /\ pc' = "idle"
       /\ Len(posted_log') > Len(posted_log)
            => /\ posted_log' = Append(posted_log, cand.product_id)
               /\ cand.message = sources[config.tg_source_channels[chan]][pos].message
               /\ cand.product_id \notin processed_product_ids
               /\ pos' = pos /\ chan' = chan]_vars

\* C22 witness: the first two messages of the first channel carry the same
\* identifier; the first was published and the second skipped
C22_Witness ==
    /\ chan = 1
    /\ pos = 2
    /\ posted_log = <<cand.product_id>>
    /\ cand.outcome = "duplicate this run"
    /\ cand.message = sources[config.tg_source_channels[1]][2].message
    /\ normalize_aliexpress_id(FirstAliLink(sources[config.tg_source_channels[1]][1].message))
           = cand.product_id

\* the positions of process_channel from the feed scan of a candidate to the
\* end of its delivery, awaits included
InFlight == {"scan", "build", "caption", "send", "send_message"}

\* C23: while a candidate is between its dedup check and its record, no
\* other message is taken and no other check runs: the position in the
\* channel, the channel and the candidate stay, the feed is scanned once, a
\* record is that of the current candidate, and no candidate is past the
\* check with an identifier that is already recorded.
C23_OneCandidateAtATime ==
    [][/\ pc \in InFlight
            => /\ pos' = pos
               /\ chan' = chan
               /\ cand'.message = cand.message
               /\ cand'.product_id = cand.product_id
               /\ calls'.feed_scan = 1
       /\ processed_product_ids' # processed_product_ids
            => \/ processed_product_ids' = processed_product_ids \cup {cand.product_id}
               \/ processed_product_ids' = {} /\ pc' = "idle"
       /\ pc' \in {"build", "caption", "send", "send_message"}
            => cand'.product_id \notin processed_product_ids']_vars

\* C23 witness: a candidate is suspended at its second delivery await, not
\* yet recorded, while the next message of the channel carries the same
\* identifier
C23_Witness ==
    /\ pc = "send_message"
    /\ calls.send_file = 1
    /\ cand.product_id \notin processed_product_ids
    /\ pos < Len(sources[Channel])
    /\ normalize_aliexpress_id(FirstAliLink(sources[Channel][pos + 1].message))
           = cand.product_id

\* C25: with dry_run on, no step makes a delivery call and no step of the
\* run changes the destination feed; a candidate at the send step is counted
\* in posted_count and recorded in processed_product_ids all the same, and
\* the count stops the channel at max_posts_per_run.
C25_DryRunCountsWithoutDelivering ==
    [][config.dry_run
         => /\ calls'.send_file = 0
            /\ calls'.send_message = 0
            /\ pc' # "send_message"
            /\ feed' # feed => pc = "idle"
            /\ pc = "send"
                 => /\ posted_count' = posted_count + 1
                    /\ processed_product_ids'
                           = processed_product_ids \cup {cand.product_id}
                    /\ cand'.outcome = "posted"
                    /\ posted_count' >= config.max_posts_per_run => pc' = "break"
            /\ posted_count' <= config.max_posts_per_run]_vars

\* C25 witness: a dry run counted a candidate up to max_posts_per_run and
\* recorded it; nothing was delivered
C25_Witness ==
    /\ config.dry_run
    /\ cand.outcome = "posted"
    /\ pc = "break"
    /\ posted_count = config.max_posts_per_run
    /\ cand.product_id \in processed_product_ids
    /\ calls.send_file + calls.send_message = 0
    /\ ~TagInFeed(cand.product_id)

\* C26: the candidate of a message is the first AliExpress link of its text;
\* a step of the run that changes the destination feed adds the one text of
\* the current candidate, ends that candidate as posted and adds 1 to
\* posted_count; send_file is called at most once and before any
\* send_message, send_message at most once and only when send_file was not
\* called or did not deliver; posted_count grows by 1 only, with the
\* candidate going from undecided to posted.
C26_OnePostPerMessage ==
    [][/\ pc' = "resolve" => cand'.original_url = FirstAliLink(cand'.message)
       /\ (feed' # feed /\ pc # "idle")
            => /\ feed' = Newest(Append(feed, cand.final_text))
               /\ cand.outcome = "none"
               /\ cand'.outcome = "posted"
               /\ posted_count' = posted_count + 1
               /\ pc' \in {"loop", "break", "sleep"}
       /\ calls'.send_file > calls.send_file
            => /\ calls.send_file = 0
               /\ calls.send_message = 0
               /\ cand.outcome = "none"
       /\ calls'.send_message > calls.send_message
            => /\ calls.send_message = 0
               /\ calls.send_file = 0 \/ pc = "send_message"
               /\ cand.outcome = "none"
       /\ posted_count' > posted_count
            => /\ posted_count' = posted_count + 1
               /\ cand.outcome = "none"
               /\ cand'.outcome = "posted"]_vars

\* C26 witness: a message with two AliExpress links; the candidate is its
\* first link, send_file failed, send_message delivered: one message of the
\* feed carries the candidate's tag, none the tag of the second link, and
\* posted_count is 1
C26_Witness ==
    /\ cand.outcome = "posted"
    /\ cand.original_url = LinkItemB
    /\ Contains(cand.message, LinkItemA2)
    /\ ~TagInFeed(normalize_aliexpress_id(LinkItemA2))
    /\ calls.send_file = 1
    /\ calls.send_message = 1
    /\ posted_count = 1
    /\ Cardinality({k \in 1..Len(feed) : Contains(feed[k], IdTag(cand.product_id))}) = 1

----------------------------------------------------------------------------
(* The caption assembly on its own: the three passes of main.py:682-687    *)
(* applied in order to new_caption, for completions of the caption writer  *)
(* and affiliate links drawn from a palette                                *)

\* the affiliate links assembled: the API's link and a prefix-built link
AssembleAffiliates == {ApiLink, AffiliatePrefix \o quote(LinkItemB)}

\* what stands in the completion where a link may be: nothing, the affiliate
\* link (once, twice, percent-encoded, nested in another URL), foreign links
CaptionLinks(a) ==
    { << >>,
      a,
      a \o <<" ">> \o a,
      quote(a),
      Https \o <<"r", ".", "c", "o", "/", "?", "t", "o", "=">> \o quote(a),
      EvilLink,
      EvilLink \o <<"\n">> \o a,
      quote(EvilLink),
      \* "HTTPS://evil.co/z": the foreign link with its scheme in capitals
      <<"H", "T", "T", "P", "S", ":", "/", "/", "e", "v", "i", "l", ".", "c", "o", "/", "z">> }

\* new_caption and affiliate_url at main.py:682, for the source text "Shop":
\* the completion call raised, or it returned a text with something before
\* and after the place of the link
AssembleInputs ==
    { [caption |-> NewCaption(write(<<"S", "h", "o", "p">>, a, completion),
                              <<"S", "h", "o", "p">>, a),
       affiliate_url |-> a] :
          a \in AssembleAffiliates,
          completion \in
              {[kind |-> "raised", content |-> << >>]}
                  \cup {[kind |-> "content", content |-> lead \o link \o tail] :
                            lead \in { << >>, <<"D", "e", "a", "l", " ">>,
                                       <<"(", "s", "e", "e", "\n">> },
                            tail \in { << >>, <<" ", "n", "o", "w">>,
                                       <<"\n">> \o BuyHeader \o <<":">> },
                            link \in UNION {CaptionLinks(b) : b \in AssembleAffiliates}} }

\* cand.message is new_caption, cand.affiliate_url the link a and
\* cand.final_text the text as the passes leave it
AssembleInit ==
    /\ config \in {c \in Configs : c.dry_run /\ c.max_posts_per_run = 1}
    /\ sources = [c1 |-> << >>, c2 |-> << >>]
    /\ feed = << >>
    /\ earlier_published = {}
    /\ run_no = 1
    /\ processed_product_ids = {}
    /\ pc = "strip"
    /\ chan = 1
    /\ pos = 0
    /\ posted_count = 0
    /\ skip_reasons = NoSkips
    /\ total_posted = 0
    /\ cand \in {[NoCand EXCEPT !.message = x.caption, !.affiliate_url = x.affiliate_url,
                               !.final_text = x.caption] : x \in AssembleInputs}
    /\ calls = NoCalls
    /\ posted_log = << >>

\* one pass: the text it leaves and the pass that comes next
AssembleStep(to, text) ==
    /\ pc' = to
    /\ cand' = [cand EXCEPT !.final_text = text]
    /\ UNCHANGED <<config, sources, feed, earlier_published, run_no, processed_product_ids,
                   chan, pos, posted_count, skip_reasons, total_posted, calls, posted_log>>

\* main.py:682
StripPass ==
    /\ pc = "strip"
    /\ AssembleStep("ensure",
                    strip_non_affiliate_links(cand.final_text, cand.affiliate_url))

\* main.py:683
EnsurePass ==
    /\ pc = "ensure"
    /\ AssembleStep("enforce",
                    ensure_affiliate_link(cand.final_text, cand.affiliate_url).content)

\* main.py:687
EnforcePass ==
    /\ pc = "enforce"
    /\ AssembleStep("assembled",
                    enforce_single_affiliate_link(cand.final_text, cand.affiliate_url))

AssembleNext ==
    \/ StripPass
    \/ EnsurePass
    \/ EnforcePass

SpecAssemble == AssembleInit /\ [][AssembleNext]_vars

\* where an absolute URL starts in s: "http://" or "https://" in any case
UrlStarts(s) ==
    {i \in 1..Len(s) : \/ StartsWithAtIC(s, i, Http)
                       \/ StartsWithAtIC(s, i, Https)}

\* the run of non-whitespace characters from i on
UrlAt(s, i) == SubSeq(s, i, NonSpaceRunEnd(s, i))

\* C9 as stated: the assembled caption contains the affiliate link exactly
\* once and no other absolute URL.
C9_OnlyTheAffiliateLink ==
    pc = "assembled"
        => /\ Count(cand.final_text, cand.affiliate_url) = 1
           /\ \A i \in UrlStarts(cand.final_text) :
                  UrlAt(cand.final_text, i) = cand.affiliate_url

----------------------------------------------------------------------------
(* The link pipeline on its own: main.py:646-669 for one message, from the  *)
(* first link of its text through resolve_final_url, normalize_aliexpress_id, *)
(* the two duplicate checks and AffiliateLinkBuilder.build                   *)

\* an item link without a query string, and one without the .html suffix
LinkItemPlain == Http \o AliDomain \o ItemPath \o <<"1", "5">> \o Html

LinkItemBare == Http \o AliDomain \o ItemPath \o <<"1", "5">>

\* where a dead short link lands: the marketplace's error page
LandedError == Http \o AliDomain \o <<"/", "4", "0", "4">> \o Html

\* the message texts of the palette: a link, with what message formatting
\* leaves before and after it
LinkMessages ==
    { lead \o core \o tail :
          lead \in { << >>, <<"(">>, <<"D", "e", "a", "l", " ", "<">> },
          core \in {LinkItemPlain, LinkItemA, LinkItemBare, LinkShort, LinkStore},
          tail \in { << >>, <<")">>, <<",", " ", "n", "o", "w">>, <<" ", ".">> } }

\* outcomes of client.get(normalized) with follow_redirects=True: httpx
\* raised, or a response with its final status, whether redirects were
\* followed (response.history) and the final URL (response.url)
RedirectOutcomes(normalized) ==
    { [kind |-> "raised", status |-> 0, history |-> FALSE, url |-> << >>],
      [kind |-> "response", status |-> 200, history |-> TRUE, url |-> LandedA],
      [kind |-> "response", status |-> 404, history |-> TRUE, url |-> LandedError],
      [kind |-> "response", status |-> 200, history |-> FALSE, url |-> normalized] }

NoRedirect == [kind |-> "none", status |-> 0, history |-> FALSE, url |-> << >>]

\* the locals of one pass over a message; original_url is links[0]
\* (main.py:643-646)
LinkCand(message) ==
    [ message |-> message, original_url |-> FirstAliLink(message),
      http |-> NoRedirect, requested |-> FALSE, resolved_url |-> << >>,
      normalized_url |-> << >>, product_id |-> << >>, cleaned |-> << >>,
      api_link |-> << >>, portal_link |-> << >>, prefix_link |-> << >>,
      affiliate_url |-> << >>, origin |-> "none", outcome |-> "none" ]

\* the ledger and the destination feed are empty, or hold product 15
LinkInit ==
    /\ config \in {c \in Configs : c.max_posts_per_run = 1}
    /\ sources = [c1 |-> << >>, c2 |-> << >>]
    /\ feed \in InitialFeeds
    /\ earlier_published = {}
    /\ run_no = 1
    /\ processed_product_ids \in {{}, {<<"1", "5">>}}
    /\ pc = "resolve"
    /\ chan = 1
    /\ pos = 0
    /\ posted_count = 0
    /\ skip_reasons = NoSkips
    /\ total_posted = 0
    /\ cand \in {LinkCand(m) : m \in LinkMessages}
    /\ calls = NoCalls
    /\ posted_log = << >>

\* one step of the pass: the locals it leaves and the step that comes next
LinkStep(to, locals) ==
    /\ pc' = to
    /\ cand' = locals
    /\ UNCHANGED <<config, sources, feed, earlier_published, run_no, processed_product_ids,
                   chan, pos, posted_count, total_posted, posted_log>>

\* main.py:647-651
ResolveLink ==
    /\ pc = "resolve"
    /\ \E http \in RedirectOutcomes(_canonical_url(cand.original_url)) \cup {NoRedirect} :
         \E r \in {resolve_final_url(cand.original_url, config.resolve_redirects, http)} :
             /\ (r.requested <=> http.kind # "none")
             /\ calls' = [calls EXCEPT !.http_get = IF r.requested THEN 1 ELSE 0]
             /\ UNCHANGED skip_reasons
             /\ LinkStep("identify",
                         [cand EXCEPT !.http = http, !.requested = r.requested,
                                      !.resolved_url = r.url])

\* main.py:655-661: product_id, with normalized_url of
\* normalize_aliexpress_id (main.py:516), and the in-run ledger check
IdentifyLink ==
    /\ pc = "identify"
    /\ UNCHANGED calls
    /\ \E product_id \in {normalize_aliexpress_id(cand.resolved_url)} :
         IF AlreadyHandled(product_id)
         THEN /\ skip_reasons' = _mark_skip(skip_reasons, "duplicate this run")
              /\ LinkStep("loop",
                          [cand EXCEPT !.normalized_url = _canonical_url(cand.resolved_url),
                                       !.product_id = product_id,
                                       !.outcome = "duplicate this run"])
         ELSE /\ UNCHANGED skip_reasons
              /\ LinkStep("scan",
                          [cand EXCEPT !.normalized_url = _canonical_url(cand.resolved_url),
                                       !.product_id = product_id])

\* the locals of build (main.py:364-380) next to what build returns
BuildLocals(response) ==
    [cleaned |-> CleanedUrl(cand.resolved_url),
     api |-> _from_api(config, CleanedUrl(cand.resolved_url), response),
     portal_link |-> _from_portal_template(config, quote(CleanedUrl(cand.resolved_url))),
     prefix_link |-> _from_prefix(config, quote(CleanedUrl(cand.resolved_url))),
     built |-> build(config, cand.resolved_url, response)]

\* main.py:669
BuildLink ==
    /\ pc = "build"
    /\ \E response \in ApiOutcomes :
         \E b \in {BuildLocals(response)} :
             /\ (config.affiliate_api_endpoint = << >> => response.kind = "failed")
             /\ calls' = [calls EXCEPT !.build = @ + 1,
                                       !.api_post = IF config.affiliate_api_endpoint # << >>
                                                    THEN @ + 1 ELSE @]
             /\ UNCHANGED skip_reasons
             /\ LinkStep("built",
                         [cand EXCEPT !.cleaned = b.cleaned,
                                      !.api_link = b.api.link,
                                      !.portal_link = b.portal_link,
                                      !.prefix_link = b.prefix_link,
                                      !.affiliate_url = b.built.link,
                                      !.origin = b.built.origin,
                                      !.outcome = IF b.built.raised THEN "build raised"
                                                  ELSE "built"])

\* main.py:663-667 is ScanFeed
LinkNext ==
    \/ ResolveLink
    \/ IdentifyLink
    \/ ScanFeed
    \/ BuildLink

SpecLink == LinkInit /\ [][LinkNext]_vars

----------------------------------------------------------------------------
(* _canonical_url on its own: applied to a string, then to its own result  *)

\* longest string given to _canonical_url
MaxUrlLen == 4

\* cand.original_url is the string u: a letter, whitespace and wrapping
\* punctuation in every order
CanonicalInit ==
    /\ config \in {c \in Configs : c.dry_run /\ c.max_posts_per_run = 1}
    /\ sources = [c1 |-> << >>, c2 |-> << >>]
    /\ feed = << >>
    /\ earlier_published = {}
    /\ run_no = 1
    /\ processed_product_ids = {}
    /\ pc = "canonical"
    /\ chan = 1
    /\ pos = 0
    /\ posted_count = 0
    /\ skip_reasons = NoSkips
    /\ total_posted = 0
    /\ cand \in {[LinkCand(<< >>) EXCEPT !.original_url = u] :
                    u \in UNION {[1..n -> {"a", " ", ".", "("}] : n \in 0..MaxUrlLen}}
    /\ calls = NoCalls
    /\ posted_log = << >>

\* _canonical_url(u) is cand.resolved_url, _canonical_url of that
\* cand.normalized_url
Canonicalize ==
    /\ pc \in {"canonical", "once"}
    /\ IF pc = "canonical"
       THEN LinkStep("once", [cand EXCEPT !.resolved_url = _canonical_url(cand.original_url)])
       ELSE LinkStep("twice", [cand EXCEPT !.normalized_url = _canonical_url(cand.resolved_url)])
    /\ UNCHANGED <<skip_reasons, calls>>

SpecCanonical == CanonicalInit /\ [][Canonicalize]_vars

\* the URL names the short-link host
IsShortLink(url) == Contains(LowerStr(url), ClickHost)

\* the URL begins or ends with whitespace or wrapping punctuation
Wrapped(url) ==
    /\ url # << >>
    /\ \/ url[1] \in Whitespace \cup WrapPunct
       \/ url[Len(url)] \in Whitespace \cup WrapPunct

\* the positions of the pass after resolve_final_url returned
AfterResolve == {"identify", "scan", "build", "built", "loop", "crashed"}

\* C12 as stated: when resolution is disabled or the URL has no short-link
\* domain, resolve_final_url returns the identical string and issues no GET.
C12_ResolveReturnsInputUnchanged ==
    (pc \in AfterResolve
        /\ (~config.resolve_redirects \/ ~IsShortLink(cand.original_url)))
        => /\ cand.resolved_url = cand.original_url
           /\ ~cand.requested
           /\ calls.http_get = 0

\* C12 amended: when resolution is disabled or the URL has no short-link
\* domain, resolve_final_url issues no GET; disabled, it returns the identical
\* string; enabled, it returns the input with its enclosing whitespace and
\* wrapping punctuation trimmed, which is the identical string when the
\* input has none.
C12_ResolveSkipsTheNetwork ==
    (pc \in AfterResolve
        /\ (~config.resolve_redirects \/ ~IsShortLink(cand.original_url)))
        => /\ ~cand.requested
           /\ calls.http_get = 0
           /\ cand.http = NoRedirect
           /\ ~config.resolve_redirects => cand.resolved_url = cand.original_url
           /\ config.resolve_redirects
                => cand.resolved_url = _canonical_url(cand.original_url)
           /\ ~Wrapped(cand.original_url) => cand.resolved_url = cand.original_url

\* C12 witness: resolution is enabled, the URL is no short link and comes
\* wrapped in punctuation: no GET, and the trimmed URL is returned
C12_Witness ==
    /\ pc = "identify"
    /\ config.resolve_redirects
    /\ ~IsShortLink(cand.original_url)
    /\ Wrapped(cand.original_url)
    /\ ~cand.requested
    /\ cand.resolved_url # cand.original_url

\* C13 as stated: when the redirect request raised or ended with a
\* non-success HTTP status, resolve_final_url returns the pre-resolution URL
\* (as given, or trimmed); a landed URL is returned only for a successful
\* response.
C13_FailedResolutionKeepsOriginal ==
    (pc \in AfterResolve
        /\ cand.requested
        /\ (cand.http.kind = "raised" \/ cand.http.status >= 400))
        => cand.resolved_url \in {cand.original_url, _canonical_url(cand.original_url)}

\* C14 as stated: _canonical_url is idempotent: for every string u, also one
\* that mixes whitespace with wrapping punctuation, the second application
\* of _canonical_url gives the string the first one gave.
C14_CanonicalUrlIdempotent ==
    pc = "twice" => cand.normalized_url = cand.resolved_url

\* C15 as stated: the URL build hands to the strategies has no query
\* string: `cleaned`, the payload of the API call, has no "?", and the link
\* built from the template or the prefix carries no percent-encoded "?".
C15_NoQueryReachesTheStrategies ==
    pc = "built"
        => /\ ~Contains(cand.cleaned, <<"?">>)
           /\ cand.origin \in {"template", "prefix"}
                => ~Contains(cand.affiliate_url, quote(<<"?">>))

\* the digits that follow the first "/item/" of the URL; << >> when there is
\* no "/item/" or no digit after it
ItemDigits(url) ==
    IF Find(url, ItemPath, 1) = 0 THEN << >>
    ELSE SubSeq(url, Find(url, ItemPath, 1) + Len(ItemPath),
                RunEnd(url, Find(url, ItemPath, 1) + Len(ItemPath), Digits))

\* C16 as stated: for a URL whose path has the shape /item/<digits>,
\* normalize_aliexpress_id returns exactly <digits>, whatever the query string
\* and the wrapping punctuation.
C16_ItemPathGivesItsDigits ==
    (pc \in {"build", "built"} /\ ItemDigits(cand.resolved_url) # << >>)
        => cand.product_id = ItemDigits(cand.resolved_url)

\* the identifier of the product the short link LinkShort leads to
LandedId == normalize_aliexpress_id(LandedA)

\* C18 as stated (run loop, Spec): a candidate that came through a short
\* link and whose early identifier is only the short-link token is not
\* published when the identifier of the product it lands on is already in
\* processed_product_ids.
C18_FinalCheckStopsShortLinkRepeat ==
    (cand.outcome = "posted"
        /\ IsShortLink(cand.original_url)
        /\ cand.product_id # LandedId)
        => LandedId \notin processed_product_ids

\* C19: when build returns, the link is that of the first strategy, in the
\* order API, portal template, prefix, that yielded one: a template link
\* only when the API yielded none, a prefix link only when API and template
\* yielded none.
C19_FirstStrategyWins ==
    (pc = "built" /\ cand.outcome = "built")
        => /\ cand.api_link # << >>
                => cand.origin = "api" /\ cand.affiliate_url = cand.api_link
           /\ (cand.api_link = << >> /\ cand.portal_link # << >>)
                => cand.origin = "template" /\ cand.affiliate_url = cand.portal_link
           /\ (cand.api_link = << >> /\ cand.portal_link = << >>)
                => cand.origin = "prefix" /\ cand.affiliate_url = cand.prefix_link
           /\ cand.origin = "template" => cand.api_link = << >>
           /\ cand.origin = "prefix" => cand.api_link = << >> /\ cand.portal_link = << >>

\* C19 witness: API, template and prefix are all configured, the API yielded
\* no link, and build returned the template's link, not the prefix's
C19_Witness ==
    /\ pc = "built"
    /\ config.affiliate_api_endpoint # << >>
    /\ calls.api_post = 1
    /\ cand.api_link = << >>
    /\ cand.portal_link # << >>
    /\ cand.prefix_link # << >>
    /\ cand.origin = "template"
    /\ cand.affiliate_url = cand.portal_link

\* C20 as stated: with a portal template that has no {url} placeholder,
\* _from_portal_template yields no link, build does not return the template
\* text, and the chain goes on to the prefix.
C20_TemplateWithoutPlaceholderUnusable ==
    (pc = "built"
        /\ config.affiliate_portal_template # << >>
        /\ ~Contains(config.affiliate_portal_template, UrlPlaceholder))
        => /\ cand.portal_link = << >>
           /\ cand.origin # "template"
           /\ cand.affiliate_url # config.affiliate_portal_template

\* C21 as stated: when the one call to the affiliate API gave no link (an
\* error object, a response without a link field), the endpoint was called
\* exactly once and build went on past the API strategy: to the template's
\* link when the template yields one.
C21_ApiWithoutLinkMovesOn ==
    (pc = "built"
        /\ config.affiliate_api_endpoint # << >>
        /\ cand.api_link = << >>)
        => /\ calls.api_post = 1
           /\ cand.origin # "api"
           /\ cand.portal_link # << >>
                => cand.origin = "template" /\ cand.affiliate_url = cand.portal_link

\* C24 as stated (run loop, Spec): the text handed to the delivery, the
\* assembled caption with the tag of format_message, contains the affiliate
\* link exactly once and no other absolute URL, whatever the identifier.
C24_DeliveredTextHasOnlyTheAffiliateLink ==
    pc \in {"send", "send_message"}
        => /\ Count(cand.final_text, cand.affiliate_url) = 1
           /\ \A i \in UrlStarts(cand.final_text) :
                  UrlAt(cand.final_text, i) = cand.affiliate_url

====
